---------------------------- MODULE Spec2Model ----------------------------
(***************************************************************************)
(* A model of KuiperDB: the chunker, the parallel embedder, the document  *)
(* store (per-database files, tables, rows), the HTTP write path built on *)
(* the store, and the background embedding worker.                         *)
(*                                                                         *)
(* Representation                                                          *)
(*   - a text is a sequence of characters (small naturals, one byte each); *)
(*   - a token is a natural: a character, or NumChars + c for the merged   *)
(*     pair "cc" (a small byte-pair vocabulary standing for cl100k_base);  *)
(*   - a name (database, table) is a sequence of ASCII codes;              *)
(*   - a vector is a sequence of f32 bit patterns, a vector column is the  *)
(*     sequence of its little-endian bytes; an Option or a nullable column *)
(*     is None (<<>>) or Some(x) (<<x>>);                                  *)
(*   - a document id is a record [kind, n]: "user" for ids a client sends, *)
(*     "uuid" for ids drawn from Uuid::new_v4().                           *)
(***************************************************************************)
EXTENDS Integers, Sequences, FiniteSets, TLC

VARIABLES
    chk,      \* one call of Chunker::chunk: its arguments and its result
    ep,       \* one call of ParallelEmbedder::embed_parallel
    fs,       \* the database files on disk: <<dir, db>> -> tables -> rows
    store,    \* the DocumentStore handle: base_dir, use_indexing
    cfg,      \* the server's Config (features, chunking, workers)
    now,      \* the value Utc::now() returns
    last,     \* the last store / HTTP operation and how it ended
    wk,       \* the background worker's scan pass (one tick)
    tasks     \* the batch tasks the worker has spawned

vars == <<chk, ep, fs, store, cfg, now, last, wk, tasks>>

-----------------------------------------------------------------------------
(* Bounds of the model *)

NumChars == 2
MaxTextLen == 5
MaxChunkSize == 3
MaxOverlap == 3
NumUserIds == 2      \* ids a client may send
MaxUuids == 1        \* ids Uuid::new_v4() may hand out while they are in use
MaxTexts == 3        \* texts in one embed_parallel call
MaxBatchSize == 2    \* ParallelEmbedder::batch_size
MaxWorkers == 2      \* ParallelEmbedder: permits of the semaphore
MaxChunkIds == 3     \* ids Uuid::new_v4() may hand out to the chunks of one HTTP write
MaxPending == 5      \* unembedded documents per table when the worker starts
MaxEmbeddingWorkers == 5   \* config.num_embedding_workers
MaxStamp == 2        \* created_at and updated_at of a document handed to store_document
MaxThreshold == 3     \* vector_index.threshold of the configuration
MaxRelationIds == 2  \* ids of document relations
MaxMemoryCapacity == 2   \* memory_capacity handed to EmbeddingCache::new
MaxCacheOps == 4      \* cache and embedder calls of one run
MaxDays == 1          \* days handed to evict_old, in steps of the clock
MaxDimensions == 2    \* config.embedding_dimensions
MaxEmbedCalls == 4    \* embed calls and restarts of the server in one run
MaxFusionDocs == 3    \* documents in the result lists of one hybrid search
MaxFusionRuns == 2    \* runs of one hybrid search
MaxGraphNodes == 3    \* document ids named by relations
MaxGraphRelations == 3   \* relations handed to a graph function
MaxGraphDepth == 2    \* max_depth of a traversal
MaxStops == 2         \* calls of BackgroundWorker::stop
MaxBuildDocs == 3     \* documents in one VectorIndex::build
MaxIndexed == 3       \* documents in a VectorIndex
MaxLiveOps == 5       \* store calls on the table with the live index
MaxDetached == 1      \* tasks of earlier ticks still running when a tick starts
MaxOverwrites == 1    \* store_document calls beside the worker
MaxLoopChunks == 6    \* chunks one call is followed for

-----------------------------------------------------------------------------
(* Generic helpers *)

Min(a, b) == IF a <= b THEN a ELSE b

SaturatingSub(a, b) == IF a >= b THEN a - b ELSE 0

Range(s) == {s[i] : i \in 1..Len(s)}

RECURSIVE Concat(_)
Concat(ss) == IF ss = <<>> THEN <<>> ELSE Head(ss) \o Concat(Tail(ss))

SeqsUpTo(S, n) == UNION {[1..k -> S] : k \in 0..n}

-----------------------------------------------------------------------------
(* chunking.rs: the tokenizer as the chunkers use it *)

Chars == 1..NumChars

\* bpe.encode_with_special_tokens: greedy left-to-right merge of an equal pair
\* (BpeEncodeFrom: the tokens of the text from position i on)
RECURSIVE BpeEncodeFrom(_, _)
BpeEncodeFrom(text, i) ==
    IF i > Len(text) THEN <<>>
    ELSE IF i < Len(text) /\ text[i] = text[i + 1]
         THEN <<NumChars + text[i]>> \o BpeEncodeFrom(text, i + 2)
         ELSE <<text[i]>> \o BpeEncodeFrom(text, i + 1)

BpeEncode(text) == BpeEncodeFrom(text, 1)

\* bpe.decode: every token back to the characters it stands for
BpeDecode(tokens) ==
    Concat([i \in 1..Len(tokens) |->
              IF tokens[i] > NumChars
              THEN <<tokens[i] - NumChars, tokens[i] - NumChars>>
              ELSE <<tokens[i]>>])

\* Chunker::count_tokens of FixedTokenChunker and MarkdownChunker
CountTokens(text) == Len(BpeEncode(text))

-----------------------------------------------------------------------------
(* chunking.rs: FixedTokenChunker::chunk *)

\* let effective_overlap = overlap.min(chunk_size.saturating_sub(1));
EffectiveOverlap(overlap, chunk_size) == Min(overlap, SaturatingSub(chunk_size, 1))

\* let end = std::cmp::min(start + chunk_size, tokens.len());
WindowEnd(start, chunk_size, ntokens) == Min(start + chunk_size, ntokens)

\* start = if effective_overlap > 0 { end.saturating_sub(effective_overlap) } else { end };
NextStart(end, effective_overlap) ==
    IF effective_overlap > 0 THEN SaturatingSub(end, effective_overlap) ELSE end

\* the while loop: the token windows [start, end) in the order they are pushed
RECURSIVE FixedWindows(_, _, _, _)
FixedWindows(ntokens, chunk_size, effective_overlap, start) ==
    IF ~(start < ntokens) THEN <<>>
    ELSE LET end == WindowEnd(start, chunk_size, ntokens)
             w == [start |-> start, end |-> end]
             next == NextStart(end, effective_overlap)
         IN  IF end >= ntokens THEN <<w>>       \* if end >= tokens.len() { break; }
             ELSE IF next >= end THEN <<w>>     \* if start >= end { break; }
             ELSE <<w>> \o FixedWindows(ntokens, chunk_size, effective_overlap, next)

\* the windows the call walks through; none when it returns before the loop
FixedTokenChunker_windows(text, chunk_size, overlap) ==
    IF text = <<>> \/ CountTokens(text) <= chunk_size THEN <<>>
    ELSE FixedWindows(CountTokens(text), chunk_size,
                      EffectiveOverlap(overlap, chunk_size), 0)

\* fn chunk(&self, text, chunk_size, overlap) -> Vec<String>
FixedTokenChunker_chunk(text, chunk_size, overlap) ==
    IF text = <<>> THEN <<>>
    ELSE IF CountTokens(text) <= chunk_size THEN <<text>>
    ELSE LET tokens == BpeEncode(text)
             ws == FixedTokenChunker_windows(text, chunk_size, overlap)
         IN  [i \in 1..Len(ws) |-> BpeDecode(SubSeq(tokens, ws[i].start + 1, ws[i].end))]


-----------------------------------------------------------------------------
(* Options (Rust Option / SQL NULL) and names *)

None == <<>>
Some(x) == <<x>>
IsSome(o) == o # <<>>
Unwrap(o) == o[1]

\* ASCII: '0'..'9' = 48..57, 'A'..'Z' = 65..90, '_' = 95, 'a'..'z' = 97..122
Name_data == <<100, 97, 116, 97>>
Name_srv == <<115, 114, 118>>
Name_global == <<103, 108, 111, 98, 97, 108>>
Name_main == <<109, 97, 105, 110>>
Name_docs == <<100, 111, 99, 115>>
Name_documents == <<100, 111, 99, 117, 109, 101, 110, 116, 115>>
Name_metadata == <<109, 101, 116, 97, 100, 97, 116, 97>>
Name_my_docs == <<109, 121, 45, 100, 111, 99, 115>>
Name_document_relations ==
    <<100, 111, 99, 117, 109, 101, 110, 116, 95, 114, 101, 108, 97, 116, 105, 111, 110, 115>>
Name_arch == <<97, 114, 99, 104>>
Name_chunks == <<99, 104, 117, 110, 107, 115>>
Suffix_fts == <<95, 102, 116, 115>>

\* the tables FTS5 keeps for "<t>_fts": _data, _idx, _docsize, _config
FtsShadowSuffixes ==
    {<<95, 100, 97, 116, 97>>, <<95, 105, 100, 120>>,
     <<95, 100, 111, 99, 115, 105, 122, 101>>, <<95, 99, 111, 110, 102, 105, 103>>}

\* the patterns of list_tables after the '%': _fts, _config, _data, _idx, _docsize
ExcludedLikeSuffixes == {Suffix_fts} \cup FtsShadowSuffixes

Prefix_sqlite == <<115, 113, 108, 105, 116, 101, 95>>

\* char::is_alphanumeric: the ASCII letters and digits, and the letters and
\* digits beyond ASCII (233 is U+00E9)
IsAlphanumeric(c) == c \in (48..57) \cup (65..90) \cup (97..122) \cup {233}

\* fn is_valid_table_name(name: &str) -> bool
is_valid_table_name(name) ==
    name # <<>> /\ \A i \in 1..Len(name) : IsAlphanumeric(name[i]) \/ name[i] = 95

\* byte-wise comparison: Vec<String>::sort and ORDER BY name (BINARY collation)
RECURSIVE LexLess(_, _)
LexLess(a, b) ==
    IF b = <<>> THEN FALSE
    ELSE IF a = <<>> THEN TRUE
    ELSE IF a[1] # b[1] THEN a[1] < b[1]
    ELSE LexLess(Tail(a), Tail(b))

RECURSIVE SortNames(_)
SortNames(S) ==
    IF S = {} THEN <<>>
    ELSE LET m == CHOOSE x \in S : \A y \in S \ {x} : LexLess(x, y)
         IN  <<m>> \o SortNames(S \ {m})

\* SQLite's LIKE folds ASCII case; '_' matches any one character
LowerAscii(c) == IF c \in 65..90 THEN c + 32 ELSE c

LikeMatchChar(p, c) == p = 95 \/ LowerAscii(p) = LowerAscii(c)

\* name LIKE '%<suffix>'
LikeSuffix(name, suffix) ==
    /\ Len(name) >= Len(suffix)
    /\ \A i \in 1..Len(suffix) :
          LikeMatchChar(suffix[i], name[Len(name) - Len(suffix) + i])

\* name LIKE '<prefix>%'
LikePrefix(name, prefix) ==
    /\ Len(name) >= Len(prefix)
    /\ \A i \in 1..Len(prefix) : LikeMatchChar(prefix[i], name[i])


-----------------------------------------------------------------------------
(* store.rs: the vector codec *)

\* f32::to_le_bytes of one component (a 32-bit pattern)
ToLeBytes(b) == <<b % 256, (b \div 256) % 256, (b \div 65536) % 256, (b \div 16777216) % 256>>

\* fn serialize_vector(vector: &[f32]) -> Vec<u8>
serialize_vector(vector) == Concat([i \in 1..Len(vector) |-> ToLeBytes(vector[i])])

\* fn deserialize_vector(bytes: &[u8]) -> Vec<f32>   (chunks_exact(4))
deserialize_vector(bytes) ==
    [i \in 1..(Len(bytes) \div 4) |->
        bytes[4 * i - 3] + 256 * bytes[4 * i - 2] + 65536 * bytes[4 * i - 1]
          + 16777216 * bytes[4 * i]]

-----------------------------------------------------------------------------
(* store.rs: database files, tables and rows *)

EmptyFn == <<>>

\* a database file that was just created by SqlitePool::connect(...?mode=rwc)
EmptyDb == [tables |-> EmptyFn, has_relations |-> FALSE, relations |-> EmptyFn]

DbKey(base_dir, db_id) == <<base_dir, db_id>>

\* DocumentStore::get_pool: opens {base_dir}/{db_id}.db, creating the file
GetPool(f, base_dir, db_id) ==
    IF DbKey(base_dir, db_id) \in DOMAIN f THEN f
    ELSE f @@ (DbKey(base_dir, db_id) :> EmptyDb)

HasTable(f, base_dir, db_id, table_name) ==
    /\ DbKey(base_dir, db_id) \in DOMAIN f
    /\ table_name \in DOMAIN f[DbKey(base_dir, db_id)].tables

TableRows(f, base_dir, db_id, table_name) ==
    f[DbKey(base_dir, db_id)].tables[table_name]

WithRows(f, base_dir, db_id, table_name, rows) ==
    [f EXCEPT ![DbKey(base_dir, db_id)].tables[table_name] = rows]

\* DocumentStore::ensure_table: CREATE TABLE / VIRTUAL TABLE / TRIGGER / INDEX
\* IF NOT EXISTS, then create_relations_table
EnsureTable(f, base_dir, db_id, table_name) ==
    IF ~is_valid_table_name(table_name) THEN [ok |-> FALSE, fs |-> f]
    ELSE LET f1 == GetPool(f, base_dir, db_id)
             d == f1[DbKey(base_dir, db_id)]
             t == IF table_name \in DOMAIN d.tables THEN d.tables
                  ELSE d.tables @@ (table_name :> EmptyFn)
         IN  [ok |-> TRUE,
              fs |-> [f1 EXCEPT ![DbKey(base_dir, db_id)] =
                         [d EXCEPT !.tables = t, !.has_relations = TRUE]]]

StoredFlagsFromDocument(doc) ==
    IF doc.is_embedded THEN [vector |-> IF IsSome(doc.vector)
                                        THEN Some(serialize_vector(Unwrap(doc.vector)))
                                        ELSE None,
                             is_embedded |-> 1, is_vectorized |-> 1]
    ELSE [vector |-> IF IsSome(doc.vector)
                     THEN Some(serialize_vector(Unwrap(doc.vector))) ELSE None,
          is_embedded |-> 0, is_vectorized |-> 0]

\* let (vector_bytes, is_embedded, is_vectorized) = if let Some(ref vector) = doc.vector ...
StoredFlags(doc) ==
    IF IsSome(doc.vector)
    THEN [vector |-> Some(serialize_vector(Unwrap(doc.vector))),
          is_embedded |-> 1, is_vectorized |-> 1]
    ELSE [vector |-> None, is_embedded |-> 0, is_vectorized |-> 0]

\* the values bound to the INSERT. The columns metadata, tags and token_count
\* are passed through by every operation and read by none: the row leaves them out.
RowOf(doc) ==
    [content |-> doc.content,
     vector |-> StoredFlags(doc).vector,
     created_at |-> doc.created_at,
     updated_at |-> doc.updated_at,
     is_embedded |-> StoredFlags(doc).is_embedded,
     vectorize |-> IF doc.vectorize THEN 1 ELSE 0,
     is_chunk |-> IF doc.is_chunk THEN 1 ELSE 0,
     parent_id |-> doc.parent_id,
     chunk_index |-> doc.chunk_index,
     is_vectorized |-> StoredFlags(doc).is_vectorized]

\* INSERT ... ON CONFLICT(id) DO UPDATE SET <every column but id and created_at>
Upsert(rows, doc) ==
    IF doc.id \in DOMAIN rows
    THEN [rows EXCEPT ![doc.id] = [RowOf(doc) EXCEPT !.created_at = rows[doc.id].created_at]]
    ELSE rows @@ (doc.id :> RowOf(doc))

\* FOREIGN KEY (parent_id) REFERENCES "{}"(id), checked when the statement ends
ForeignKeyHolds(rows, id) ==
    IsSome(rows[id].parent_id) => Unwrap(rows[id].parent_id) \in DOMAIN rows

\* DocumentStore::store_document
StoreDocument(f, base_dir, db_id, table_name, doc) ==
    LET e == EnsureTable(f, base_dir, db_id, table_name)
    IN  IF ~e.ok THEN [ok |-> FALSE, fs |-> f]
        ELSE LET rows == Upsert(TableRows(e.fs, base_dir, db_id, table_name), doc)
             IN  IF ~ForeignKeyHolds(rows, doc.id) THEN [ok |-> FALSE, fs |-> e.fs]
                 ELSE [ok |-> TRUE, fs |-> WithRows(e.fs, base_dir, db_id, table_name, rows)]

\* SET vector = ?, is_embedded = 1, is_vectorized = 1, updated_at = ?
UpdatedVectorRow(row, vector, t) ==
    [row EXCEPT !.vector = Some(serialize_vector(vector)), !.is_embedded = 1,
                !.is_vectorized = 1, !.updated_at = t]

\* DocumentStore::update_document_vector. The handle is built by
\* DocumentStore::new, so use_indexing is false and no index is touched.
UpdateDocumentVector(f, base_dir, db_id, table_name, doc_id, vector, t) ==
    LET f1 == GetPool(f, base_dir, db_id)
    IN  IF ~HasTable(f1, base_dir, db_id, table_name) THEN [ok |-> FALSE, fs |-> f1]
        ELSE LET rows == TableRows(f1, base_dir, db_id, table_name)
             IN  IF doc_id \notin DOMAIN rows THEN [ok |-> TRUE, fs |-> f1]
                 ELSE [ok |-> TRUE,
                       fs |-> WithRows(f1, base_dir, db_id, table_name,
                                 [rows EXCEPT ![doc_id] = UpdatedVectorRow(@, vector, t)])]

ChildrenOf(rows, S) ==
    {id \in DOMAIN rows : IsSome(rows[id].parent_id) /\ Unwrap(rows[id].parent_id) \in S}

CascadeNotEnforced(rows, S) == S

\* ON DELETE CASCADE: the rows deleted with S, through every level of parent_id
RECURSIVE CascadeClosure(_, _)
CascadeClosure(rows, S) ==
    LET n == S \cup ChildrenOf(rows, S)
    IN  IF n = S THEN S ELSE CascadeClosure(rows, n)

DeleteRows(rows, S) ==
    LET gone == CascadeClosure(rows, S)
    IN  [id \in (DOMAIN rows) \ gone |-> rows[id]]

ParentCheckSkipped(rows, doc_id) == FALSE

\* if let Some((Some(_parent_id),)) = result
IsChildDocument(rows, doc_id) == doc_id \in DOMAIN rows /\ IsSome(rows[doc_id].parent_id)

\* DocumentStore::delete_document_by_id
DeleteDocumentById(f, base_dir, db_id, table_name, doc_id) ==
    LET f1 == GetPool(f, base_dir, db_id)
    IN  IF ~HasTable(f1, base_dir, db_id, table_name) THEN [ok |-> FALSE, fs |-> f1]
        ELSE LET rows == TableRows(f1, base_dir, db_id, table_name)
             IN  IF IsChildDocument(rows, doc_id) THEN [ok |-> FALSE, fs |-> f1]
                 ELSE [ok |-> TRUE,
                       fs |-> WithRows(f1, base_dir, db_id, table_name,
                                       DeleteRows(rows, {doc_id} \cap DOMAIN rows))]

\* DocumentStore::delete_chunks: DELETE ... WHERE parent_id = ? AND is_chunk = 1
DeleteChunks(f, base_dir, db_id, table_name, parent_id) ==
    LET f1 == GetPool(f, base_dir, db_id)
    IN  IF ~HasTable(f1, base_dir, db_id, table_name) THEN [ok |-> FALSE, fs |-> f1]
        ELSE LET rows == TableRows(f1, base_dir, db_id, table_name)
                 S == {id \in DOMAIN rows : rows[id].parent_id = Some(parent_id)
                                            /\ rows[id].is_chunk = 1}
             IN  [ok |-> TRUE,
                  fs |-> WithRows(f1, base_dir, db_id, table_name, DeleteRows(rows, S))]

\* DocumentStore::get_document
GetDocument(f, base_dir, db_id, table_name, id) ==
    LET f1 == GetPool(f, base_dir, db_id)
    IN  IF HasTable(f1, base_dir, db_id, table_name)
           /\ id \in DOMAIN TableRows(f1, base_dir, db_id, table_name)
        THEN [ok |-> TRUE, fs |-> f1, row |-> TableRows(f1, base_dir, db_id, table_name)[id]]
        ELSE [ok |-> FALSE, fs |-> f1]

-----------------------------------------------------------------------------
(* Document ids *)

UserId(n) == [kind |-> "user", n |-> n]
UuidId(n) == [kind |-> "uuid", n |-> n]

\* every id some row of some table carries
UsedIds(f) ==
    UNION {UNION {DOMAIN f[k].tables[t] : t \in DOMAIN f[k].tables} : k \in DOMAIN f}

UserIds == {UserId(n) : n \in 1..NumUserIds}
UuidIds == {UuidId(n) : n \in 1..MaxUuids}
DocIds == UserIds \cup UuidIds

\* Uuid::new_v4(), k times: k ids no row carries, lowest-numbered first
RECURSIVE FreshUuids(_, _)
FreshUuids(used, k) ==
    IF k = 0 THEN <<>>
    ELSE LET n == CHOOSE m \in 1..(Cardinality(used) + 1) :
                     /\ UuidId(m) \notin used
                     /\ \A j \in 1..(m - 1) : UuidId(j) \in used
         IN  <<UuidId(n)>> \o FreshUuids(used \cup {UuidId(n)}, k - 1)

\* the model draws a new uuid only while one of its MaxUuids ids is free
FreshAvailable(used, k) == Range(FreshUuids(used, k)) \subseteq UuidIds

WriteUuidIds == {UuidId(n) : n \in 1..MaxChunkIds}

\* the embedding service: a vector that depends on the text
EmbeddingService(text) == <<Len(text), 256 + text[1]>>

\* DocumentStore::add_document
AddDocument(f, base_dir, db_id, table_name, request, t) ==
    LET doc_id == IF IsSome(request.id) THEN Unwrap(request.id)
                  ELSE FreshUuids(UsedIds(f), 1)[1]
        doc == [id |-> doc_id, content |-> request.content, vector |-> None,
                created_at |-> t, updated_at |-> t, is_embedded |-> FALSE,
                vectorize |-> request.vectorize, is_chunk |-> FALSE,
                parent_id |-> None, chunk_index |-> None, is_vectorized |-> FALSE]
        r == StoreDocument(f, base_dir, db_id, table_name, doc)
    IN  [ok |-> r.ok, fs |-> r.fs, doc |-> doc]

-----------------------------------------------------------------------------
(* The parts of the system a specification leaves at rest *)

IdleChk == [pc |-> "idle"]
IdleEp == [pc |-> "idle"]
IdleStore == [base_dir |-> Name_data, use_indexing |-> FALSE]
IdleCfg == [chunking |-> FALSE, embedding |-> FALSE]
IdleLast == [op |-> "none"]
IdlePass ==
    [pc |-> "idle", databases |-> <<>>, db |-> <<>>, tables |-> <<>>, table |-> <<>>,
     docs |-> <<>>, spawned |-> 0, joined |-> 0, total_processed |-> 0, err |-> FALSE,
     selected |-> {}, failed |-> {}, scanned |-> {}]

-----------------------------------------------------------------------------
(* Specification SpecChunk: one call of FixedTokenChunker::chunk *)

InitChunk ==
    /\ chk \in {[pc |-> "called", text |-> t, chunk_size |-> cs, overlap |-> ov,
                 windows |-> <<>>, chunks |-> <<>>] :
                   t \in SeqsUpTo(Chars, MaxTextLen), cs \in 0..MaxChunkSize,
                   ov \in 0..MaxOverlap}
    /\ ep = IdleEp
    /\ fs = EmptyFn
    /\ store = IdleStore
    /\ cfg = IdleCfg
    /\ now = 0
    /\ last = IdleLast
    /\ wk = IdlePass
    /\ tasks = <<>>

\* the call runs to its return
ChunkReturn ==
    /\ chk.pc = "called"
    /\ chk' = [chk EXCEPT !.pc = "returned",
                          !.windows = FixedTokenChunker_windows(chk.text, chk.chunk_size,
                                                                chk.overlap),
                          !.chunks = FixedTokenChunker_chunk(chk.text, chk.chunk_size,
                                                             chk.overlap)]
    /\ UNCHANGED <<ep, fs, store, cfg, now, last, wk, tasks>>

NextChunk == ChunkReturn

SpecChunk == InitChunk /\ [][NextChunk]_vars

\* the case C1 is about: a returned call with chunk_size >= 1 on a text of
\* more than chunk_size tokens
ChunkSplits ==
    /\ chk.pc = "returned"
    /\ chk.chunk_size >= 1
    /\ CountTokens(chk.text) > chk.chunk_size

\* C1: when the text has more tokens than chunk_size (chunk_size >= 1, any
\* overlap), the returned chunks are the decoded token windows; the first
\* window starts at token 0, the last ends at the last token, every window
\* holds between 1 and chunk_size tokens, and each next window starts at or
\* before the end of the previous one, repeating at most `overlap` tokens, so
\* every token position lies in some window.
C1_FixedChunksCoverInput ==
    ChunkSplits =>
        LET ws == chk.windows
            n == CountTokens(chk.text)
            tokens == BpeEncode(chk.text)
        IN  /\ Len(ws) >= 2
            /\ Len(chk.chunks) = Len(ws)
            /\ \A i \in 1..Len(ws) :
                  /\ chk.chunks[i] = BpeDecode(SubSeq(tokens, ws[i].start + 1, ws[i].end))
                  /\ ws[i].end - ws[i].start >= 1
                  /\ ws[i].end - ws[i].start <= chk.chunk_size
            /\ ws[1].start = 0
            /\ ws[Len(ws)].end = n
            /\ \A i \in 1..(Len(ws) - 1) :
                  /\ ws[i + 1].start <= ws[i].end
                  /\ ws[i + 1].start >= ws[i].end - chk.overlap
                  /\ ws[i + 1].start > ws[i].start
            /\ \A p \in 0..(n - 1) : \E i \in 1..Len(ws) : ws[i].start <= p /\ p < ws[i].end

\* the same statement for calls with overlap >= 1 and chunk_size >= 2, where
\* the loop's `if start >= end { break; }` does not fire after the first window
FixedChunksCoverInputWithOverlap ==
    (chk.pc = "returned" /\ EffectiveOverlap(chk.overlap, chk.chunk_size) > 0)
        => C1_FixedChunksCoverInput

-----------------------------------------------------------------------------
(* Specification SpecStoreOps: a client of DocumentStore calling            *)
(* store_document, add_document, update_document_vector,                    *)
(* delete_document_by_id and delete_chunks in any order                     *)

StoreOpsContent == <<1, 2>>
StoreOpsTables == {Name_docs, Name_my_docs}

\* the Document values a caller passes to store_document: a plain document, or
\* a chunk of some document; doc.is_embedded is whatever the caller says
StoreOpsDocuments ==
    {[id |-> id, content |-> StoreOpsContent, vector |-> v, created_at |-> 0,
      updated_at |-> 0, is_embedded |-> e, vectorize |-> TRUE, is_chunk |-> FALSE,
      parent_id |-> None, chunk_index |-> None, is_vectorized |-> e] :
        id \in DocIds, v \in {None, Some(EmbeddingService(StoreOpsContent))},
        e \in BOOLEAN}
    \cup
    {[id |-> id, content |-> StoreOpsContent, vector |-> None, created_at |-> 0,
      updated_at |-> 0, is_embedded |-> FALSE, vectorize |-> TRUE, is_chunk |-> TRUE,
      parent_id |-> Some(p), chunk_index |-> Some(0), is_vectorized |-> FALSE] :
        id \in DocIds, p \in DocIds}

StoreOpsRequests ==
    {[id |-> i, content |-> StoreOpsContent, vectorize |-> vz] :
        i \in {None} \cup {Some(u) : u \in UserIds}, vz \in BOOLEAN}

InitStoreOps ==
    /\ chk = IdleChk
    /\ ep = IdleEp
    /\ fs = EmptyFn
    /\ store = IdleStore
    /\ cfg = IdleCfg
    /\ now = 0
    /\ last = IdleLast
    /\ wk = IdlePass
    /\ tasks = <<>>

OpStoreDocument ==
    \E t \in {Name_docs}, doc \in StoreOpsDocuments :
        \E r \in {StoreDocument(fs, store.base_dir, Name_main, t, doc)} :
            /\ fs' = r.fs
            /\ last' = [op |-> "store_document", table |-> t, id |-> doc.id, ok |-> r.ok]
            /\ UNCHANGED <<chk, ep, store, cfg, now, wk, tasks>>

OpAddDocument ==
    \E t \in StoreOpsTables, request \in StoreOpsRequests :
        /\ IsSome(request.id) \/ FreshAvailable(UsedIds(fs), 1)
        /\ \E r \in {AddDocument(fs, store.base_dir, Name_main, t, request, now)} :
               /\ fs' = r.fs
               /\ last' = [op |-> "add_document", table |-> t, id |-> r.doc.id, ok |-> r.ok]
        /\ UNCHANGED <<chk, ep, store, cfg, now, wk, tasks>>

OpUpdateDocumentVector ==
    \E t \in {Name_docs}, id \in DocIds :
        \E r \in {UpdateDocumentVector(fs, store.base_dir, Name_main, t, id,
                                        EmbeddingService(StoreOpsContent), now)} :
            /\ fs' = r.fs
            /\ last' = [op |-> "update_document_vector", table |-> t, id |-> id, ok |-> r.ok]
            /\ UNCHANGED <<chk, ep, store, cfg, now, wk, tasks>>

OpDeleteDocumentById ==
    \E t \in {Name_docs}, id \in DocIds :
        \E r \in {DeleteDocumentById(fs, store.base_dir, Name_main, t, id)} :
            /\ fs' = r.fs
            /\ last' = [op |-> "delete_document_by_id", table |-> t, id |-> id, ok |-> r.ok,
                         removed |-> Cardinality(UsedIds(fs)) - Cardinality(UsedIds(r.fs))]
            /\ UNCHANGED <<chk, ep, store, cfg, now, wk, tasks>>

OpDeleteChunks ==
    \E t \in {Name_docs}, id \in DocIds :
        \E r \in {DeleteChunks(fs, store.base_dir, Name_main, t, id)} :
            /\ fs' = r.fs
            /\ last' = [op |-> "delete_chunks", table |-> t, id |-> id, ok |-> r.ok]
            /\ UNCHANGED <<chk, ep, store, cfg, now, wk, tasks>>

NextStoreOps ==
    \/ OpStoreDocument
    \/ OpAddDocument
    \/ OpUpdateDocumentVector
    \/ OpDeleteDocumentById
    \/ OpDeleteChunks

SpecStoreOps == InitStoreOps /\ [][NextStoreOps]_vars

\* every row of every user table of every database file
AllRows(f) ==
    UNION {UNION {{f[k].tables[t][id] : id \in DOMAIN f[k].tables[t]} :
                     t \in DOMAIN f[k].tables} : k \in DOMAIN f}

\* C6: after any sequence of store_document, add_document,
\* update_document_vector and delete operations, every row of every user table
\* has is_embedded = 1 exactly when its vector column is non-null, and
\* is_vectorized = is_embedded.
C6_EmbeddedIffVector ==
    \A row \in AllRows(fs) :
        /\ row.is_embedded \in {0, 1}
        /\ (row.is_embedded = 1) <=> IsSome(row.vector)
        /\ row.is_vectorized = row.is_embedded

\* rows of both kinds exist, one made by update_document_vector, after a delete
\* has run: a caller-supplied vector, a caller-claimed is_embedded without one
C6_Witness ==
    /\ HasTable(fs, store.base_dir, Name_main, Name_docs)
    /\ last.op = "update_document_vector" /\ last.ok
    /\ last.id \in DOMAIN TableRows(fs, store.base_dir, Name_main, Name_docs)
    /\ \E row \in AllRows(fs) : row.is_embedded = 0 /\ row.vector = None
    /\ \E row \in AllRows(fs) : row.is_embedded = 1 /\ row.is_chunk = 1

DocsRows(f) == TableRows(f, store.base_dir, Name_main, Name_docs)

DocsExists(f) == HasTable(f, store.base_dir, Name_main, Name_docs)

\* C7: delete_document_by_id on a document whose parent_id is non-null fails
\* with an error and deletes nothing: the chunk, its siblings and its parent
\* (every row of every table) are stored afterwards exactly as before.
C7_ChildDeleteRejected ==
    [][(/\ last'.op = "delete_document_by_id"
        /\ DocsExists(fs)
        /\ last'.id \in DOMAIN DocsRows(fs)
        /\ IsSome(DocsRows(fs)[last'.id].parent_id))
       => (~last'.ok /\ fs' = fs)]_vars

\* a rejected delete of a chunk whose parent and a sibling chunk are stored
C7_Witness ==
    /\ last.op = "delete_document_by_id" /\ ~last.ok
    /\ DocsExists(fs)
    /\ last.id \in DOMAIN DocsRows(fs)
    /\ \E p \in DOMAIN DocsRows(fs), sib \in DOMAIN DocsRows(fs) :
          /\ p # last.id /\ sib # last.id /\ sib # p
          /\ DocsRows(fs)[last.id].parent_id = Some(p)
          /\ DocsRows(fs)[sib].parent_id = Some(p)
          /\ DocsRows(fs)[p].parent_id = None

\* C8: after a successful delete_document_by_id(P) on a stored document P
\* without parent, the table holds neither P nor any row whose parent_id is P,
\* however many chunks P had.
C8_ParentDeleteCascades ==
    [][(/\ last'.op = "delete_document_by_id" /\ last'.ok
        /\ DocsExists(fs)
        /\ last'.id \in DOMAIN DocsRows(fs)
        /\ DocsRows(fs)[last'.id].parent_id = None)
       => (/\ DocsExists(fs')
           /\ last'.id \notin DOMAIN DocsRows(fs')
           /\ \A c \in DOMAIN DocsRows(fs') :
                 DocsRows(fs')[c].parent_id # Some(last'.id))]_vars

\* a successful delete that removed the document and its two chunks
C8_Witness ==
    /\ last.op = "delete_document_by_id" /\ last.ok
    /\ last.removed = 3
    /\ DocsExists(fs)
    /\ last.id \notin DOMAIN DocsRows(fs)

-----------------------------------------------------------------------------
(* api.rs: the HTTP write path. A handler takes the store's mutex when it   *)
(* starts and holds it until it returns, so each handler is one step.        *)

\* the Document built for each chunk text (store_document and rechunk_document)
ChunkDocs(parent_id, chunk_texts, ids, t) ==
    [i \in 1..Len(chunk_texts) |->
        [id |-> ids[i], content |-> chunk_texts[i], vector |-> None,
         created_at |-> t, updated_at |-> t, is_embedded |-> FALSE,
         vectorize |-> TRUE, is_chunk |-> TRUE, parent_id |-> Some(parent_id),
         chunk_index |-> Some(i - 1), is_vectorized |-> FALSE]]

\* the loops that store the chunk documents: store_document only warns when a
\* chunk fails (propagate = FALSE), rechunk_document returns at the first error
RECURSIVE StoreChunks(_, _, _, _, _, _)
StoreChunks(f, base_dir, db_id, table_name, chunks, propagate) ==
    IF chunks = <<>> THEN [ok |-> TRUE, fs |-> f]
    ELSE LET r == StoreDocument(f, base_dir, db_id, table_name, Head(chunks))
         IN  IF propagate /\ ~r.ok THEN [ok |-> FALSE, fs |-> r.fs]
             ELSE StoreChunks(r.fs, base_dir, db_id, table_name, Tail(chunks), propagate)

\* the chunking block of store_document (fixed-token strategy): the chunk
\* documents to store, none when the document is not split
ChunksToStore(c, doc, used, t) ==
    IF c.features.chunking /\ c.chunking.enabled /\ doc.vectorize
       /\ CountTokens(doc.content) > c.chunking.token_threshold
    THEN LET texts == FixedTokenChunker_chunk(doc.content, c.chunking.chunk_size,
                                              c.chunking.chunk_overlap)
         IN  ChunkDocs(doc.id, texts, FreshUuids(used, Len(texts)), t)
    ELSE <<>>

\* doc.vectorize = false, set when token_count > token_threshold
IsSplit(c, doc) ==
    /\ c.features.chunking /\ c.chunking.enabled /\ doc.vectorize
    /\ CountTokens(doc.content) > c.chunking.token_threshold

\* pub async fn store_document (POST /db/{db}/{table}); embed says whether the
\* X-Client-Features header leaves the embedding synchronous, embed_ok whether
\* the embedder answers
HandleStoreDocument(f, c, base_dir, db_id, table_name, request, embed, embed_ok, t) ==
    IF request.content = <<>>
    THEN [status |-> 400, fs |-> f, id |-> None, chunk_ids |-> <<>>]
    ELSE
    LET a == AddDocument(f, base_dir, db_id, table_name, request, t)
        should_embed == c.features.embedding /\ embed # "async"
        doc1 == IF should_embed
                THEN [a.doc EXCEPT !.vector = Some(EmbeddingService(request.content)),
                                   !.is_embedded = TRUE]
                ELSE a.doc
        chunks == ChunksToStore(c, doc1, UsedIds(a.fs), t)
        doc2 == IF IsSplit(c, doc1) THEN [doc1 EXCEPT !.vectorize = FALSE] ELSE doc1
        p == StoreDocument(a.fs, base_dir, db_id, table_name, doc2)
    IN  IF ~a.ok THEN [status |-> 500, fs |-> a.fs, id |-> None, chunk_ids |-> <<>>]
        ELSE IF should_embed /\ ~embed_ok
        THEN [status |-> 500, fs |-> a.fs, id |-> Some(a.doc.id), chunk_ids |-> <<>>]
        ELSE IF ~p.ok
        THEN [status |-> 500, fs |-> p.fs, id |-> Some(a.doc.id), chunk_ids |-> <<>>]
        ELSE [status |-> 201,
              fs |-> StoreChunks(p.fs, base_dir, db_id, table_name, chunks, FALSE).fs,
              id |-> Some(a.doc.id),
              chunk_ids |-> [i \in 1..Len(chunks) |-> chunks[i].id]]

\* pub async fn rechunk_document (POST /db/{db}/{table}/{doc_id}/rechunk)
HandleRechunkDocument(f, c, base_dir, db_id, table_name, doc_id, t) ==
    IF ~c.features.chunking \/ ~c.chunking.enabled
    THEN [status |-> 501, fs |-> f, id |-> Some(doc_id), chunk_ids |-> <<>>]
    ELSE
    LET g == GetDocument(f, base_dir, db_id, table_name, doc_id)
        d == DeleteChunks(g.fs, base_dir, db_id, table_name, doc_id)
        texts == FixedTokenChunker_chunk(g.row.content, c.chunking.chunk_size,
                                         c.chunking.chunk_overlap)
        chunks == ChunkDocs(doc_id, texts, FreshUuids(UsedIds(d.fs), Len(texts)), t)
        r == StoreChunks(d.fs, base_dir, db_id, table_name, chunks, TRUE)
    IN  IF ~g.ok THEN [status |-> 404, fs |-> g.fs, id |-> Some(doc_id), chunk_ids |-> <<>>]
        ELSE IF ~d.ok
        THEN [status |-> 500, fs |-> d.fs, id |-> Some(doc_id), chunk_ids |-> <<>>]
        ELSE IF ~r.ok
        THEN [status |-> 500, fs |-> r.fs, id |-> Some(doc_id), chunk_ids |-> <<>>]
        ELSE [status |-> 200, fs |-> r.fs, id |-> Some(doc_id),
              chunk_ids |-> [i \in 1..Len(chunks) |-> chunks[i].id]]

\* pub async fn delete_document (DELETE /db/{db}/{table}/{doc_id})
HandleDeleteDocument(f, base_dir, db_id, table_name, doc_id) ==
    LET r == DeleteDocumentById(f, base_dir, db_id, table_name, doc_id)
    IN  [status |-> IF r.ok THEN 204 ELSE 500, fs |-> r.fs, id |-> Some(doc_id),
         chunk_ids |-> <<>>]

-----------------------------------------------------------------------------
(* Specification SpecWritePath: HTTP clients storing, re-chunking and        *)
(* deleting documents of one table, under one of several configurations      *)

\* the configuration of the scenario "chunking threshold": token_threshold 10,
\* chunk_size 10, chunk_overlap 0, fixed-token strategy
ThresholdScenarioConfig(embedding) ==
    [features |-> [chunking |-> TRUE, embedding |-> embedding],
     chunking |-> [enabled |-> TRUE, token_threshold |-> 10, chunk_size |-> 10,
                   chunk_overlap |-> 0]]

\* a configuration with a window of two tokens that overlaps by one
SmallWindowConfig(embedding) ==
    [features |-> [chunking |-> TRUE, embedding |-> embedding],
     chunking |-> [enabled |-> TRUE, token_threshold |-> 2, chunk_size |-> 2,
                   chunk_overlap |-> 1]]

WritePathConfigs ==
    {ThresholdScenarioConfig(e) : e \in BOOLEAN}
    \cup {SmallWindowConfig(e) : e \in BOOLEAN}
    \cup {[SmallWindowConfig(FALSE) EXCEPT !.features.chunking = FALSE]}

\* a text of n tokens: no two neighbouring characters are equal
AlternatingText(n) == [i \in 1..n |-> IF i % 2 = 1 THEN 1 ELSE 2]

\* what clients send under a configuration: no content, one token, and a long
\* document (50 tokens under the threshold scenario, 3 under the small window)
WritePathContents(c) ==
    {<<>>, <<1>>,
     AlternatingText(IF c.chunking.token_threshold = 10 THEN 50 ELSE 3)}

WritePathRequests(c) ==
    {[id |-> i, content |-> content, vectorize |-> vz] :
        i \in {Some(UserId(1))},
        content \in WritePathContents(c), vz \in BOOLEAN}

WritePathIds == {UserId(1)} \cup WriteUuidIds

\* X-Client-Features: without the embedding feature the header is not read
EmbedHeaders(c) == IF c.features.embedding THEN {"sync", "async"} ELSE {"sync"}

\* the embedder is called, and may fail, only for a synchronous embedding
EmbedOutcomes(c, embed) ==
    IF c.features.embedding /\ embed # "async" THEN BOOLEAN ELSE {TRUE}

\* the uuids store_document draws for a request: one for the document when the
\* request names no id, one for each chunk
UuidsNeeded(c, request) ==
    (IF IsSome(request.id) THEN 0 ELSE 1)
    + (IF IsSplit(c, request)
       THEN Len(FixedTokenChunker_chunk(request.content, c.chunking.chunk_size,
                                        c.chunking.chunk_overlap))
       ELSE 0)

\* the chunks rechunk_document makes of a stored document
RechunkTexts(f, c, base_dir, db_id, table_name, doc_id) ==
    IF HasTable(f, base_dir, db_id, table_name)
       /\ doc_id \in DOMAIN TableRows(f, base_dir, db_id, table_name)
       /\ c.features.chunking /\ c.chunking.enabled
    THEN FixedTokenChunker_chunk(TableRows(f, base_dir, db_id, table_name)[doc_id].content,
                                 c.chunking.chunk_size, c.chunking.chunk_overlap)
    ELSE <<>>

InitWritePath ==
    /\ chk = IdleChk
    /\ ep = IdleEp
    /\ fs = EmptyFn
    /\ store = IdleStore
    /\ cfg \in WritePathConfigs
    /\ now = 0
    /\ last = IdleLast
    /\ wk = IdlePass
    /\ tasks = <<>>

ApiStoreDocument ==
    \E request \in WritePathRequests(cfg), embed \in EmbedHeaders(cfg) :
      \E embed_ok \in EmbedOutcomes(cfg, embed) :
        /\ Range(FreshUuids(UsedIds(fs), UuidsNeeded(cfg, request))) \subseteq WriteUuidIds
        /\ \E r \in {HandleStoreDocument(fs, cfg, store.base_dir, Name_main, Name_docs,
                                         request, embed, embed_ok, now)} :
            /\ fs' = r.fs
            /\ last' = [op |-> "store_document", status |-> r.status, id |-> r.id,
                        chunk_ids |-> r.chunk_ids, vectorize |-> request.vectorize]
            /\ UNCHANGED <<chk, ep, store, cfg, now, wk, tasks>>

ApiRechunkDocument ==
    \E doc_id \in WritePathIds :
        /\ Len(RechunkTexts(fs, cfg, store.base_dir, Name_main, Name_docs, doc_id))
              <= MaxChunkIds
        /\ \E r \in {HandleRechunkDocument(fs, cfg, store.base_dir, Name_main, Name_docs,
                                           doc_id, now)} :
            /\ Range(r.chunk_ids) \subseteq WriteUuidIds
            /\ fs' = r.fs
            /\ last' = [op |-> "rechunk_document", status |-> r.status, id |-> r.id,
                        chunk_ids |-> r.chunk_ids]
            /\ UNCHANGED <<chk, ep, store, cfg, now, wk, tasks>>

ApiDeleteDocument ==
    \E doc_id \in WritePathIds :
        \E r \in {HandleDeleteDocument(fs, store.base_dir, Name_main, Name_docs, doc_id)} :
            /\ fs' = r.fs
            /\ last' = [op |-> "delete_document", status |-> r.status, id |-> r.id,
                        chunk_ids |-> r.chunk_ids]
            /\ UNCHANGED <<chk, ep, store, cfg, now, wk, tasks>>

NextWritePath ==
    \/ ApiStoreDocument
    \/ ApiRechunkDocument
    \/ ApiDeleteDocument

SpecWritePath == InitWritePath /\ [][NextWritePath]_vars

\* C2: with chunking enabled, token_threshold = 10, chunk_size = 10 and
\* overlap = 0, storing a 50-token document (vectorize left true) through the
\* write path produces exactly 5 chunk documents, each a stored row with
\* is_chunk = 1, parent_id = the document's id and vectorize = 1, with
\* chunk_index 0, 1, 2, 3, 4, while the parent is stored with vectorize = 0.
C2_ThresholdScenarioFiveChunks ==
    (/\ cfg \in {ThresholdScenarioConfig(e) : e \in BOOLEAN}
     /\ last.op = "store_document" /\ last.status = 201 /\ last.vectorize
     /\ CountTokens(DocsRows(fs)[Unwrap(last.id)].content) = 50)
    => (/\ Len(last.chunk_ids) = 5
        /\ \A i \in 1..Len(last.chunk_ids) :
              /\ last.chunk_ids[i] \in DOMAIN DocsRows(fs)
              /\ DocsRows(fs)[last.chunk_ids[i]].is_chunk = 1
              /\ DocsRows(fs)[last.chunk_ids[i]].parent_id = last.id
              /\ DocsRows(fs)[last.chunk_ids[i]].vectorize = 1
              /\ DocsRows(fs)[last.chunk_ids[i]].chunk_index = Some(i - 1)
        /\ {Unwrap(DocsRows(fs)[id].chunk_index) : id \in Range(last.chunk_ids)} = 0..4
        /\ DocsRows(fs)[Unwrap(last.id)].vectorize = 0)

\* C9: after any sequence of stores through the write path (the same id again
\* included), rechunks and deletes, every chunk row's parent_id names an
\* existing row of the same table and no two chunk rows of the same parent
\* have the same chunk_index.
C9_ChunksNameParentAndUniqueIndex ==
    DocsExists(fs) =>
        \A c \in DOMAIN DocsRows(fs) :
            DocsRows(fs)[c].is_chunk = 1 =>
                /\ IsSome(DocsRows(fs)[c].parent_id)
                /\ Unwrap(DocsRows(fs)[c].parent_id) \in DOMAIN DocsRows(fs)
                /\ IsSome(DocsRows(fs)[c].chunk_index)
                /\ Unwrap(DocsRows(fs)[c].chunk_index) >= 0
                /\ \A d \in DOMAIN DocsRows(fs) \ {c} :
                      (/\ DocsRows(fs)[d].is_chunk = 1
                       /\ DocsRows(fs)[d].parent_id = DocsRows(fs)[c].parent_id)
                      => DocsRows(fs)[d].chunk_index # DocsRows(fs)[c].chunk_index

\* C10: a document the write path has just split into chunks is stored with
\* vectorize = 0, a null vector and is_embedded = 0, with synchronous
\* embedding enabled as well as without.
C10_SplitParentCarriesNoVector ==
    (/\ last.op = "store_document" /\ last.status = 201
     /\ last.chunk_ids # <<>>)
    => (/\ DocsRows(fs)[Unwrap(last.id)].vectorize = 0
        /\ DocsRows(fs)[Unwrap(last.id)].vector = None
        /\ DocsRows(fs)[Unwrap(last.id)].is_embedded = 0)

-----------------------------------------------------------------------------
(* embedder.rs: ParallelEmbedder::embed_parallel                             *)
(*                                                                           *)
(* ep.task[i] is the tokio task of batch i: "embedding" while embed_batch    *)
(* runs, "released" once it dropped its permit, "finished" once its          *)
(* JoinHandle is ready. ep.queue is the ready-to-run queue of the            *)
(* FuturesUnordered: a pushed future enters it, a future polled while        *)
(* pending leaves it (ep.parked) and re-enters at the back when its task     *)
(* finishes; next() polls from the front.                                    *)

\* texts.chunks(batch_size): the i-th batch
Batch(texts, batch_size, i) ==
    SubSeq(texts, (i - 1) * batch_size + 1, Min(i * batch_size, Len(texts)))

NumBatches(texts, batch_size) == (Len(texts) + batch_size - 1) \div batch_size

\* Embedder::embed_batch when every request succeeds
EmbedBatch(batch) == [i \in 1..Len(batch) |-> EmbeddingService(batch[i])]

EpTexts == {<<1>>, <<2>>}

InitEmbedParallel ==
    /\ chk = IdleChk
    /\ ep \in {[pc |-> "running", texts |-> ts, batch_size |-> bs, permits |-> mw,
                max_workers |-> mw, task |-> <<>>, queue |-> <<>>, parked |-> {}, all_embeddings |-> <<>>,
                result |-> "none"] :
                  ts \in SeqsUpTo(EpTexts, MaxTexts), bs \in 1..MaxBatchSize,
                  mw \in 1..MaxWorkers}
    /\ fs = EmptyFn
    /\ store = IdleStore
    /\ cfg = IdleCfg
    /\ now = 0
    /\ last = IdleLast
    /\ wk = IdlePass
    /\ tasks = <<>>

\* one turn of the for loop: acquire_owned, tokio::spawn, tasks.push
EpSpawn ==
    /\ ep.pc = "running"
    /\ Len(ep.task) < NumBatches(ep.texts, ep.batch_size)
    /\ ep.permits > 0
    /\ ep' = [ep EXCEPT !.permits = @ - 1,
                        !.task = Append(@, [st |-> "embedding", ok |-> TRUE]),
                        !.queue = Append(@, Len(ep.task) + 1)]
    /\ UNCHANGED <<chk, fs, store, cfg, now, last, wk, tasks>>

\* A task that gives its permit back only when embed_batch succeeded.
EpTaskEmbeddedLeaksOnError ==
    \E i \in 1..Len(ep.task), ok \in BOOLEAN :
        /\ ep.task[i].st = "embedding"
        /\ ep' = [ep EXCEPT !.task[i] = [st |-> "released", ok |-> ok],
                            !.permits = IF ok THEN @ + 1 ELSE @]
        /\ UNCHANGED <<chk, fs, store, cfg, now, last, wk, tasks>>

\* a task: embed_batch returns (Ok or Err), then drop(permit)
EpTaskEmbedded ==
    \E i \in 1..Len(ep.task), ok \in BOOLEAN :
        /\ ep.task[i].st = "embedding"
        /\ ep' = [ep EXCEPT !.task[i] = [st |-> "released", ok |-> ok],
                            !.permits = @ + 1]
        /\ UNCHANGED <<chk, fs, store, cfg, now, last, wk, tasks>>

\* a task returns its result: its JoinHandle becomes ready and wakes the stream
EpTaskFinished ==
    \E i \in 1..Len(ep.task) :
        /\ ep.task[i].st = "released"
        /\ ep' = [ep EXCEPT !.task[i].st = "finished",
                            !.parked = @ \ {i},
                            !.queue = IF i \in ep.parked THEN Append(@, i) ELSE @]
        /\ UNCHANGED <<chk, fs, store, cfg, now, last, wk, tasks>>

\* tasks.next() polls the future at the front of the queue and finds it pending
EpPollPending ==
    /\ ep.pc = "running"
    /\ Len(ep.task) = NumBatches(ep.texts, ep.batch_size)
    /\ ep.queue # <<>>
    /\ ep.task[Head(ep.queue)].st # "finished"
    /\ ep' = [ep EXCEPT !.queue = Tail(@), !.parked = @ \cup {Head(ep.queue)}]
    /\ UNCHANGED <<chk, fs, store, cfg, now, last, wk, tasks>>

\* tasks.next() yields a finished task: result?? then all_embeddings.extend
EpPollReady ==
    /\ ep.pc = "running"
    /\ Len(ep.task) = NumBatches(ep.texts, ep.batch_size)
    /\ ep.queue # <<>>
    /\ ep.task[Head(ep.queue)].st = "finished"
    /\ ep' = IF ep.task[Head(ep.queue)].ok
             THEN [ep EXCEPT !.queue = Tail(@),
                             !.all_embeddings =
                                 @ \o EmbedBatch(Batch(ep.texts, ep.batch_size,
                                                       Head(ep.queue)))]
             ELSE [ep EXCEPT !.queue = Tail(@), !.pc = "returned", !.result = "err"]
    /\ UNCHANGED <<chk, fs, store, cfg, now, last, wk, tasks>>

\* tasks.next() yields None: Ok(all_embeddings)
EpReturn ==
    /\ ep.pc = "running"
    /\ Len(ep.task) = NumBatches(ep.texts, ep.batch_size)
    /\ ep.queue = <<>> /\ ep.parked = {}
    /\ ep' = [ep EXCEPT !.pc = "returned", !.result = "ok"]
    /\ UNCHANGED <<chk, fs, store, cfg, now, last, wk, tasks>>

NextEmbedParallel ==
    \/ EpSpawn
    \/ EpTaskEmbedded
    \/ EpTaskFinished
    \/ EpPollPending
    \/ EpPollReady
    \/ EpReturn

SpecEmbedParallel == InitEmbedParallel /\ [][NextEmbedParallel]_vars

\* C3: on success embed_parallel returns one vector per input text, the i-th
\* being the embedding of the i-th text, for every batch_size >= 1, every
\* max_workers >= 1 and every order in which the batch tasks finish.
C3_EmbedParallelKeepsInputOrder ==
    (ep.pc = "returned" /\ ep.result = "ok")
        => ep.all_embeddings = EmbedBatch(ep.texts)

\* the same, for the number of vectors alone
EmbedParallelReturnsOnePerText ==
    (ep.pc = "returned" /\ ep.result = "ok")
        => Len(ep.all_embeddings) = Len(ep.texts)

-----------------------------------------------------------------------------
(* store.rs: what the background worker reads *)

\* DocumentStore::list_databases: the *.db files of the directory "data"
\* (whatever base_dir is), without "global", sorted
ListDatabases(f) ==
    SortNames({k[2] : k \in {kk \in DOMAIN f : kk[1] = Name_data}} \ {Name_global})

\* the rows of sqlite_master with type = 'table' in one database file
SqliteMasterTables(d) ==
    DOMAIN d.tables
    \cup {t \o Suffix_fts : t \in DOMAIN d.tables}
    \cup {t \o Suffix_fts \o x : t \in DOMAIN d.tables, x \in FtsShadowSuffixes}
    \cup (IF d.has_relations THEN {Name_document_relations} ELSE {})

\* DocumentStore::list_tables
ListTables(f, base_dir, db_id) ==
    LET f1 == GetPool(f, base_dir, db_id)
    IN  [fs |-> f1,
         tables |-> SortNames({n \in SqliteMasterTables(f1[DbKey(base_dir, db_id)]) :
                                  /\ ~LikePrefix(n, Prefix_sqlite)
                                  /\ \A x \in ExcludedLikeSuffixes : ~LikeSuffix(n, x)})]

\* ORDER BY created_at ASC: the ids of S, oldest first
RECURSIVE OldestFirst(_, _)
OldestFirst(rows, S) ==
    IF S = {} THEN <<>>
    ELSE LET m == CHOOSE x \in S : \A y \in S : rows[x].created_at <= rows[y].created_at
         IN  <<m>> \o OldestFirst(rows, S \ {m})

\* DocumentStore::get_non_embedded_documents; the SELECT fails on a table
\* without the document columns (document_relations) and on a missing table
GetNonEmbeddedDocuments(f, base_dir, db_id, table_name, limit) ==
    LET f1 == GetPool(f, base_dir, db_id)
    IN  IF ~HasTable(f1, base_dir, db_id, table_name)
        THEN [ok |-> FALSE, fs |-> f1, docs |-> <<>>]
        ELSE LET rows == TableRows(f1, base_dir, db_id, table_name)
                 ids == OldestFirst(rows, {id \in DOMAIN rows :
                                             rows[id].is_embedded = 0 /\ rows[id].vectorize = 1})
             IN  [ok |-> TRUE, fs |-> f1,
                  docs |-> [i \in 1..Min(limit, Len(ids)) |->
                               [id |-> ids[i], content |-> rows[ids[i]].content]]]

-----------------------------------------------------------------------------
(* worker.rs: BackgroundWorker                                               *)
(*                                                                           *)
(* wk is the scan pass process_non_embedded_documents runs at a tick: pc,    *)
(* the databases and tables still to visit, the documents fetched from the   *)
(* current table, how many batches were spawned and joined, total_processed. *)
(* Three fields only record what happened, for the properties: selected (the *)
(* ids fetched in this pass), failed (the ids whose embedding failed),       *)
(* scanned (the tables whose SELECT ran). tasks are the spawned batch tasks:  *)
(* tasks[i] is handles[i] while the table is processed; a task whose handle   *)
(* was dropped by an early return keeps running (detached).                   *)
(* Every store call of the pass and of a task takes the mutex for that call   *)
(* alone, so each is one step.                                                *)

\* let batch_size = 4;
WorkerBatchSize == 4

\* a document as add_document leaves it: no vector, vectorize = true
PendingDocument(n) ==
    [id |-> UserId(n), content |-> <<1 + (n % NumChars)>>, vector |-> None,
     created_at |-> n, updated_at |-> n, is_embedded |-> FALSE, vectorize |-> TRUE,
     is_chunk |-> FALSE, parent_id |-> None, chunk_index |-> None,
     is_vectorized |-> FALSE]

\* the files after `pending` documents were stored in each table of each
\* database: document number n goes to database (n-th in turn), table, slot
RECURSIVE StoreAll(_, _, _, _, _, _)
StoreAll(f, base_dir, dbs, tables, pending, n) ==
    IF n > Len(dbs) * Len(tables) * pending THEN f
    ELSE LET r == StoreDocument(f, base_dir,
                                dbs[1 + ((n - 1) \div (Len(tables) * pending))],
                                tables[1 + (((n - 1) \div pending) % Len(tables))],
                                PendingDocument(n))
         IN  IF r.ok THEN StoreAll(r.fs, base_dir, dbs, tables, pending, n + 1) ELSE f

\* where the worker may find itself: the store's directory, its databases,
\* the tables of each, the documents waiting in each table
WorkerScenarios ==
    {[base_dir |-> b, dbs |-> d, tables |-> t, pending |-> k] :
        b \in {Name_data, Name_srv},
        d \in {<<Name_main>>, <<Name_arch, Name_main>>},
        t \in {<<Name_docs>>, <<Name_documents>>, <<Name_metadata>>,
               <<Name_docs, Name_documents>>, <<Name_chunks, Name_docs>>},
        k \in 1..MaxPending}

InitWorker ==
    /\ chk = IdleChk
    /\ ep = IdleEp
    /\ \E sc \in WorkerScenarios :
          /\ store = [base_dir |-> sc.base_dir, use_indexing |-> FALSE]
          /\ fs = StoreAll(DbKey(sc.base_dir, Name_global) :> EmptyDb, sc.base_dir,
                           sc.dbs, sc.tables, sc.pending, 1)
    /\ cfg \in {[num_embedding_workers |-> w] : w \in 1..MaxEmbeddingWorkers}
    /\ now = MaxPending * 4 + 1
    /\ last = IdleLast
    /\ wk = IdlePass
    /\ tasks = <<>>

\* interval.tick(): process_non_embedded_documents starts with list_databases
WkTick ==
    /\ wk.pc = "idle"
    /\ tasks = <<>>
    /\ wk' = [IdlePass EXCEPT !.pc = "next_db", !.databases = ListDatabases(fs)]
    /\ UNCHANGED <<chk, ep, fs, store, cfg, now, last, tasks>>

\* the outer loop is over, or total_processed >= max_documents: Ok(())
WkTickEnds ==
    /\ wk.pc = "next_db"
    /\ wk.databases = <<>> \/ wk.total_processed >= cfg.num_embedding_workers
    /\ wk' = [wk EXCEPT !.pc = "idle"]
    /\ UNCHANGED <<chk, ep, fs, store, cfg, now, last, tasks>>

\* for db_name in databases: list_tables(&db_name)
WkListTables ==
    /\ wk.pc = "next_db"
    /\ wk.databases # <<>> /\ wk.total_processed < cfg.num_embedding_workers
    /\ \E r \in {ListTables(fs, store.base_dir, Head(wk.databases))} :
          /\ fs' = r.fs
          /\ wk' = [wk EXCEPT !.pc = "next_table", !.db = Head(wk.databases),
                              !.databases = Tail(@), !.tables = r.tables]
    /\ UNCHANGED <<chk, ep, store, cfg, now, last, tasks>>

\* the inner loop is over, or total_processed >= max_documents: next database
WkTablesDone ==
    /\ wk.pc = "next_table"
    /\ wk.tables = <<>> \/ wk.total_processed >= cfg.num_embedding_workers
    /\ wk' = [wk EXCEPT !.pc = "next_db"]
    /\ UNCHANGED <<chk, ep, fs, store, cfg, now, last, tasks>>

\* A limit that forgets what the pass has processed already.
RemainingIgnoresProcessed(max_documents, total_processed) == max_documents

\* let remaining = max_documents - total_processed;
Remaining(max_documents, total_processed) == max_documents - total_processed

\* what get_non_embedded_documents returns for the next table of the pass
NextTableFetch ==
    GetNonEmbeddedDocuments(fs, store.base_dir, wk.db, Head(wk.tables),
                            Remaining(cfg.num_embedding_workers, wk.total_processed))

VisitsTable ==
    /\ wk.pc = "next_table"
    /\ wk.tables # <<>> /\ wk.total_processed < cfg.num_embedding_workers

\* get_non_embedded_documents(..).await? fails: the pass returns the error
WkTableFails ==
    /\ VisitsTable
    /\ ~NextTableFetch.ok
    /\ fs' = NextTableFetch.fs
    /\ wk' = [wk EXCEPT !.pc = "idle", !.err = TRUE]
    /\ UNCHANGED <<chk, ep, store, cfg, now, last, tasks>>

\* if docs.is_empty() { continue; }
WkTableSkipped ==
    /\ VisitsTable
    /\ NextTableFetch.ok /\ NextTableFetch.docs = <<>>
    /\ fs' = NextTableFetch.fs
    /\ wk' = [wk EXCEPT !.tables = Tail(@),
                        !.scanned = @ \cup {<<wk.db, Head(wk.tables)>>}]
    /\ UNCHANGED <<chk, ep, store, cfg, now, last, tasks>>

\* documents were fetched: the batches of this table are spawned next
WkTableFetched ==
    /\ VisitsTable
    /\ NextTableFetch.ok /\ NextTableFetch.docs # <<>>
    /\ fs' = NextTableFetch.fs
    /\ wk' = [wk EXCEPT !.pc = "spawn", !.table = Head(wk.tables), !.tables = Tail(@),
                        !.docs = NextTableFetch.docs, !.spawned = 0, !.joined = 0,
                        !.scanned = @ \cup {<<wk.db, Head(wk.tables)>>},
                        !.selected = @ \cup {d.id : d \in Range(NextTableFetch.docs)}]
    /\ UNCHANGED <<chk, ep, store, cfg, now, last, tasks>>

\* docs.chunks(batch_size): the documents of batch number b (from 0)
WorkerBatch(docs, b) ==
    SubSeq(docs, b * WorkerBatchSize + 1, Min(Len(docs), (b + 1) * WorkerBatchSize))

\* for chunk in docs.chunks(batch_size): tokio::spawn, handles.push. At most
\* docs.len() batches exist and num_workers = docs.len() here (the fetch was
\* limited to what remains of num_embedding_workers), so handles.len() stays
\* below num_workers and the branch that pops a handle never runs.
WkSpawn ==
    /\ wk.pc = "spawn"
    /\ Len(tasks) < Min(cfg.num_embedding_workers, Len(wk.docs))
    /\ tasks' = Append(tasks, [db |-> wk.db, table |-> wk.table,
                               docs |-> WorkerBatch(wk.docs, wk.spawned),
                               st |-> "embedding", k |-> 1, detached |-> FALSE])
    /\ wk' = [wk EXCEPT !.spawned = @ + 1,
                        !.pc = IF (wk.spawned + 1) * WorkerBatchSize >= Len(wk.docs)
                               THEN "join" ELSE "spawn"]
    /\ UNCHANGED <<chk, ep, fs, store, cfg, now, last>>

\* a finished task whose handle nobody holds is gone; another keeps its result
TaskFinished(i, st) ==
    IF tasks[i].detached
    THEN [j \in 1..(Len(tasks) - 1) |-> IF j < i THEN tasks[j] ELSE tasks[j + 1]]
    ELSE [tasks EXCEPT ![i].st = st]

\* the task embedded every document of its batch
TaskEmbed(i) ==
    /\ tasks[i].st = "embedding"
    /\ tasks' = [tasks EXCEPT ![i].st = "writing"]
    /\ UNCHANGED <<chk, ep, fs, store, cfg, now, last, wk>>

\* embedder.embed(&doc.content).await? fails for document j of the batch:
\* the task returns the error with nothing written
TaskEmbedFails(i) ==
    /\ tasks[i].st = "embedding"
    /\ \E j \in 1..Len(tasks[i].docs) :
          wk' = [wk EXCEPT !.failed = @ \cup {tasks[i].docs[j].id}]
    /\ tasks' = TaskFinished(i, "err")
    /\ UNCHANGED <<chk, ep, fs, store, cfg, now, last>>

\* update_document_vector for document k of the batch, under the mutex
TaskWrite(i) ==
    /\ tasks[i].st = "writing"
    /\ \E r \in {UpdateDocumentVector(fs, store.base_dir, tasks[i].db, tasks[i].table,
                                      tasks[i].docs[tasks[i].k].id,
                                      EmbeddingService(tasks[i].docs[tasks[i].k].content),
                                      now)} :
          /\ fs' = r.fs
          /\ tasks' = IF ~r.ok THEN TaskFinished(i, "err")
                      ELSE IF tasks[i].k = Len(tasks[i].docs) THEN TaskFinished(i, "ok")
                      ELSE [tasks EXCEPT ![i].k = @ + 1]
    /\ UNCHANGED <<chk, ep, store, cfg, now, last, wk>>

\* for handle in handles: handle.await?? gave Ok(processed)
WkJoinOk ==
    /\ wk.pc = "join"
    /\ tasks # <<>> /\ tasks[1].st = "ok"
    /\ tasks' = Tail(tasks)
    /\ wk' = [wk EXCEPT !.joined = @ + 1,
                        !.total_processed = @ + Len(tasks[1].docs),
                        !.pc = IF Len(tasks) = 1 THEN "next_table" ELSE "join"]
    /\ UNCHANGED <<chk, ep, fs, store, cfg, now, last>>

\* handle.await?? gave the task's error: the pass returns it, the handles not
\* yet awaited are dropped and their tasks run on
WkJoinErr ==
    /\ wk.pc = "join"
    /\ tasks # <<>> /\ tasks[1].st = "err"
    /\ tasks' = [j \in 1..Len(SelectSeq(Tail(tasks), LAMBDA t : t.st \in {"embedding", "writing"})) |->
                    [SelectSeq(Tail(tasks), LAMBDA t : t.st \in {"embedding", "writing"})[j]
                        EXCEPT !.detached = TRUE]]
    /\ wk' = [wk EXCEPT !.pc = "idle", !.err = TRUE]
    /\ UNCHANGED <<chk, ep, fs, store, cfg, now, last>>

\* the steps of the worker's own task
WkStep ==
    \/ WkTick
    \/ WkTickEnds
    \/ WkListTables
    \/ WkTablesDone
    \/ WkTableFails
    \/ WkTableSkipped
    \/ WkTableFetched
    \/ WkSpawn
    \/ WkJoinOk

\* every embedding request succeeds
NextWorkerFair ==
    \/ WkStep
    \/ \E i \in 1..Len(tasks) : TaskEmbed(i)
    \/ \E i \in 1..Len(tasks) : TaskWrite(i)

\* the interval keeps ticking and the runtime runs every task that can run (a
\* pass fetches at most num_embedding_workers documents, WorkerBatchSize a task)
SpecWorkerFair ==
    /\ InitWorker
    /\ [][NextWorkerFair]_vars
    /\ WF_vars(WkStep)
    /\ \A i \in 1..((MaxEmbeddingWorkers + WorkerBatchSize - 1) \div WorkerBatchSize) :
          WF_vars(i \in 1..Len(tasks) /\ (TaskEmbed(i) \/ TaskWrite(i)))

\* embedding requests may fail
NextWorker ==
    \/ WkStep
    \/ WkJoinErr
    \/ \E i \in 1..Len(tasks) : TaskEmbed(i)
    \/ \E i \in 1..Len(tasks) : TaskEmbedFails(i)
    \/ \E i \in 1..Len(tasks) : TaskWrite(i)

SpecWorker == InitWorker /\ [][NextWorker]_vars

\* the documents that wait for the worker, and those it has embedded
PendingIds ==
    UNION {UNION {{id \in DOMAIN fs[k].tables[t] :
                      /\ fs[k].tables[t][id].is_embedded = 0
                      /\ fs[k].tables[t][id].vectorize = 1} :
                     t \in DOMAIN fs[k].tables} : k \in DOMAIN fs}
EmbeddedIds ==
    UNION {UNION {{id \in DOMAIN fs[k].tables[t] : fs[k].tables[t][id].is_embedded = 1} :
                     t \in DOMAIN fs[k].tables} : k \in DOMAIN fs}

\* C4: while ticks keep firing, every embedding request succeeds and nobody
\* writes, every document of a user table that has is_embedded = 0 and
\* vectorize = 1 eventually has is_embedded = 1, whatever the table name, the
\* number of tables, the base directory and the number of pending documents.
C4_PendingDocumentsEventuallyEmbedded ==
    \A n \in 1..(4 * MaxPending) :
        (UserId(n) \in PendingIds) ~> (UserId(n) \in EmbeddedIds)

\* C5: when one document's embedding or write-back fails during a tick, the
\* other documents selected in that tick are still embedded and written back,
\* the remaining tables and databases are still scanned in the same tick
\* (as far as the tick's budget reaches), and the failed document stays
\* is_embedded = 0.
C5_WorkerContinuesAfterDocumentFailure ==
    (wk.pc = "idle" /\ tasks = <<>> /\ wk.failed # {}) =>
        /\ wk.selected \ wk.failed \subseteq EmbeddedIds
        /\ wk.failed \subseteq PendingIds
        /\ \/ Cardinality(wk.selected) >= cfg.num_embedding_workers
           \/ \A k \in DOMAIN fs :
                 (k[1] = store.base_dir /\ k[2] # Name_global) =>
                     \A t \in DOMAIN fs[k].tables : <<k[2], t>> \in wk.scanned

-----------------------------------------------------------------------------
(* store.rs: document relations                                              *)
(*                                                                           *)
(* The rows of document_relations are the field relations of a database: a   *)
(* function from relation id to [source_id, target_id, relation_type].       *)

\* A document_relations table created without the unique index.
UniqueIndexMissing(rels, relation) == FALSE

\* CREATE UNIQUE INDEX idx_relations_unique
\*     ON document_relations(source_id, target_id, relation_type)
UniqueIndexViolated(rels, relation) ==
    \E id \in DOMAIN rels :
        /\ rels[id].source_id = relation.source_id
        /\ rels[id].target_id = relation.target_id
        /\ rels[id].relation_type = relation.relation_type

\* DocumentStore::create_relation: INSERT INTO document_relations; it fails when
\* the table does not exist, on the PRIMARY KEY and on the unique index
CreateRelation(f, base_dir, db_id, relation) ==
    LET f1 == GetPool(f, base_dir, db_id)
        d == f1[DbKey(base_dir, db_id)]
    IN  IF \/ ~d.has_relations
           \/ relation.id \in DOMAIN d.relations
           \/ UniqueIndexViolated(d.relations, relation)
        THEN [ok |-> FALSE, fs |-> f1]
        ELSE [ok |-> TRUE,
              fs |-> [f1 EXCEPT ![DbKey(base_dir, db_id)].relations =
                         @ @@ (relation.id :> [source_id |-> relation.source_id,
                                               target_id |-> relation.target_id,
                                               relation_type |-> relation.relation_type])]]

\* DocumentStore::delete_relation: DELETE FROM document_relations WHERE id = ?
DeleteRelation(f, base_dir, db_id, relation_id) ==
    LET f1 == GetPool(f, base_dir, db_id)
        d == f1[DbKey(base_dir, db_id)]
    IN  IF ~d.has_relations THEN [ok |-> FALSE, fs |-> f1]
        ELSE [ok |-> TRUE,
              fs |-> [f1 EXCEPT ![DbKey(base_dir, db_id)].relations =
                         [id \in DOMAIN d.relations \ {relation_id} |-> d.relations[id]]]]

\* the relations a caller may hand to create_relation
RelationInputs ==
    [id : {UuidId(n) : n \in 1..MaxRelationIds}, source_id : UserIds, target_id : UserIds,
     relation_type : {"references", "follows"}]

\* database "main" went through ensure_table, database "arch" was never written
InitRelations ==
    /\ chk = IdleChk
    /\ ep = IdleEp
    /\ store = IdleStore
    /\ fs = EnsureTable(DbKey(Name_data, Name_global) :> EmptyDb,
                        Name_data, Name_main, Name_docs).fs
    /\ cfg = IdleCfg
    /\ now = 1
    /\ last = IdleLast
    /\ wk = IdlePass
    /\ tasks = <<>>

OpCreateRelation ==
    \E db_id \in {Name_main, Name_arch}, relation \in RelationInputs :
        \E r \in {CreateRelation(fs, store.base_dir, db_id, relation)} :
            /\ fs' = r.fs
            /\ last' = [op |-> "create_relation", db |-> db_id, relation |-> relation,
                        ok |-> r.ok]
            /\ UNCHANGED <<chk, ep, store, cfg, now, wk, tasks>>

OpDeleteRelation ==
    \E db_id \in {Name_main, Name_arch}, n \in 1..MaxRelationIds :
        \E r \in {DeleteRelation(fs, store.base_dir, db_id, UuidId(n))} :
            /\ fs' = r.fs
            /\ last' = [op |-> "delete_relation", db |-> db_id, ok |-> r.ok]
            /\ UNCHANGED <<chk, ep, store, cfg, now, wk, tasks>>

SpecRelations == InitRelations /\ [][OpCreateRelation \/ OpDeleteRelation]_vars

\* C11: a create_relation whose (source_id, target_id, relation_type) is that
\* of a stored relation of the database fails, even with another id, and leaves
\* the stored relations as they were; so no two stored relations of a database
\* ever share (source_id, target_id, relation_type).
C11_RelationTripleUnique ==
    [][/\ \A k \in DOMAIN fs' : \A a, b \in DOMAIN fs'[k].relations :
              (/\ fs'[k].relations[a].source_id = fs'[k].relations[b].source_id
               /\ fs'[k].relations[a].target_id = fs'[k].relations[b].target_id
               /\ fs'[k].relations[a].relation_type = fs'[k].relations[b].relation_type)
              => a = b
       /\ (/\ last'.op = "create_relation"
           /\ DbKey(store.base_dir, last'.db) \in DOMAIN fs
           /\ \E id \in DOMAIN fs[DbKey(store.base_dir, last'.db)].relations :
                 /\ fs[DbKey(store.base_dir, last'.db)].relations[id]
                      = [source_id |-> last'.relation.source_id,
                         target_id |-> last'.relation.target_id,
                         relation_type |-> last'.relation.relation_type])
          => (~last'.ok /\ fs' = fs)]_vars

\* a create_relation with a fresh id and a stored triple was refused
C11_Witness ==
    /\ last.op = "create_relation"
    /\ ~last.ok
    /\ last.relation.id \notin DOMAIN fs[DbKey(store.base_dir, last.db)].relations
    /\ \E id \in DOMAIN fs[DbKey(store.base_dir, last.db)].relations :
          /\ fs[DbKey(store.base_dir, last.db)].relations[id].source_id = last.relation.source_id
          /\ fs[DbKey(store.base_dir, last.db)].relations[id].target_id = last.relation.target_id
          /\ fs[DbKey(store.base_dir, last.db)].relations[id].relation_type
               = last.relation.relation_type

-----------------------------------------------------------------------------
(* store.rs: store_document of an id that is already stored *)

\* documents that differ in every column the row keeps
UpsertDocuments ==
    {[id |-> id, content |-> c, vector |-> v, created_at |-> ca, updated_at |-> ua,
      is_embedded |-> IsSome(v), vectorize |-> TRUE, is_chunk |-> FALSE,
      parent_id |-> None, chunk_index |-> None, is_vectorized |-> IsSome(v)] :
        id \in UserIds, c \in {<<1>>, <<2>>}, v \in {None, Some(EmbeddingService(<<1>>))},
        ca \in 1..MaxStamp, ua \in 1..MaxStamp}

OpUpsert ==
    \E doc \in UpsertDocuments :
        \E r \in {StoreDocument(fs, store.base_dir, Name_main, Name_docs, doc)} :
            /\ fs' = r.fs
            /\ last' = [op |-> "store_document", doc |-> doc, ok |-> r.ok,
                        existed |-> HasTable(fs, store.base_dir, Name_main, Name_docs)
                                    /\ doc.id \in DOMAIN TableRows(fs, store.base_dir,
                                                                   Name_main, Name_docs)]
            /\ UNCHANGED <<chk, ep, store, cfg, now, wk, tasks>>

SpecUpsert == InitStoreOps /\ [][OpUpsert]_vars

\* C12: store_document of a document whose id is already in the table
\* overwrites every column of the stored row except id with the values of the
\* new document (created_at included).
C12_UpsertOverwritesEveryColumn ==
    (last.op = "store_document" /\ last.ok /\ last.existed) =>
        TableRows(fs, store.base_dir, Name_main, Name_docs)[last.doc.id] = RowOf(last.doc)

\* what does hold: every column except id and created_at is overwritten
UpsertOverwritesAllButCreatedAt ==
    (last.op = "store_document" /\ last.ok /\ last.existed) =>
        [TableRows(fs, store.base_dir, Name_main, Name_docs)[last.doc.id]
            EXCEPT !.created_at = last.doc.created_at] = RowOf(last.doc)

-----------------------------------------------------------------------------
(* index.rs, store.rs: the in-memory vector index                            *)
(*                                                                           *)
(* A DocumentStore is [base_dir, use_indexing, index_threshold, indexes];    *)
(* indexes maps <<db_id, table_name>> (the key "{db}:{table}") to a          *)
(* VectorIndex [dimensions, built, ids]. ids is the set of document ids in   *)
(* id_map: nothing modelled here reads the position of an id. Of a search    *)
(* the model keeps which path ran and which ids came back, not the scores;   *)
(* the limit is taken to be at least the number of rows.                     *)

\* index_threshold: 1000 in DocumentStore::new
DefaultIndexThreshold == 1000

\* DocumentStore::new
NewDocumentStore(base_dir) ==
    [base_dir |-> base_dir, use_indexing |-> FALSE,
     index_threshold |-> DefaultIndexThreshold, indexes |-> EmptyFn]

\* DocumentStore::configure_indexing
ConfigureIndexing(st, enabled, threshold) ==
    [st EXCEPT !.use_indexing = enabled, !.index_threshold = threshold]

\* VectorIndex::new followed by VectorIndex::build: an empty list leaves the
\* index unbuilt, a vector of another dimension is skipped
VectorIndex_build(dimensions, documents) ==
    IF documents = {} THEN [dimensions |-> dimensions, built |-> FALSE, ids |-> {}]
    ELSE [dimensions |-> dimensions, built |-> TRUE,
          ids |-> {d.id : d \in {x \in documents : Len(x.vector) = dimensions}}]

\* VectorIndex::add: a known id is skipped
VectorIndex_add(index, doc_id, vector) ==
    IF Len(vector) # index.dimensions THEN [ok |-> FALSE, index |-> index]
    ELSE IF doc_id \in index.ids THEN [ok |-> TRUE, index |-> index]
    ELSE [ok |-> TRUE, index |-> [index EXCEPT !.built = TRUE, !.ids = @ \cup {doc_id}]]

\* VectorIndex::search
VectorIndex_search(index, query) ==
    IF Len(query) # index.dimensions THEN [ok |-> FALSE, ids |-> {}]
    ELSE IF ~index.built THEN [ok |-> TRUE, ids |-> {}]
    ELSE [ok |-> TRUE, ids |-> index.ids]

\* SELECT ... WHERE is_embedded = 1 AND vector IS NOT NULL
EmbeddedWithVector(rows) ==
    {id \in DOMAIN rows : rows[id].is_embedded = 1 /\ IsSome(rows[id].vector)}

\* DocumentStore::build_index of a table that exists: no row, no index. The
\* dimension is that of the first row fetched.
BuildIndex(st, rows, db_id, table_name) ==
    IF EmbeddedWithVector(rows) = {} THEN st
    ELSE LET first == CHOOSE id \in EmbeddedWithVector(rows) : TRUE
         IN  [st EXCEPT !.indexes =
                 (<<db_id, table_name>> :>
                     VectorIndex_build(
                         Len(deserialize_vector(Unwrap(rows[first].vector))),
                         {[id |-> id, vector |-> deserialize_vector(Unwrap(rows[id].vector))] :
                             id \in EmbeddedWithVector(rows)})) @@ @]

\* DocumentStore::should_use_index, given the table exists:
\* use_indexing and COUNT(*) WHERE is_embedded = 1 >= index_threshold
ShouldUseIndex(st, rows) ==
    /\ st.use_indexing
    /\ Cardinality({id \in DOMAIN rows : rows[id].is_embedded = 1}) >= st.index_threshold

\* DocumentStore::search_vector: [ok, store, fs, used_index, ids]
SearchVector(st, f, db_id, table_name, query_vector) ==
    LET f1 == GetPool(f, st.base_dir, db_id)
        fail == [ok |-> FALSE, store |-> st, fs |-> f1, used_index |-> FALSE, ids |-> {}]
    IN  IF ~HasTable(f1, st.base_dir, db_id, table_name) THEN fail
        ELSE LET rows == TableRows(f1, st.base_dir, db_id, table_name)
             IN  IF ~ShouldUseIndex(st, rows)
                 THEN [ok |-> TRUE, store |-> st, fs |-> f1, used_index |-> FALSE,
                       ids |-> EmbeddedWithVector(rows)]
                 ELSE LET st1 == IF <<db_id, table_name>> \in DOMAIN st.indexes THEN st
                                 ELSE BuildIndex(st, rows, db_id, table_name)
                      IN  IF <<db_id, table_name>> \notin DOMAIN st1.indexes
                          THEN [fail EXCEPT !.used_index = TRUE]
                          ELSE LET n == VectorIndex_search(st1.indexes[<<db_id, table_name>>],
                                                           query_vector)
                               IN  [ok |-> n.ok, store |-> st1, fs |-> f1, used_index |-> TRUE,
                                    ids |-> n.ids \cap DOMAIN rows]

\* DocumentStore::update_document_vector with its index step: [ok, store, fs]
UpdateDocumentVectorIndexed(st, f, db_id, table_name, doc_id, vector, t) ==
    LET r == UpdateDocumentVector(f, st.base_dir, db_id, table_name, doc_id, vector, t)
    IN  IF ~r.ok \/ ~st.use_indexing \/ <<db_id, table_name>> \notin DOMAIN st.indexes
        THEN [ok |-> r.ok, store |-> st, fs |-> r.fs]
        ELSE LET a == VectorIndex_add(st.indexes[<<db_id, table_name>>], doc_id, vector)
             IN  [ok |-> a.ok, fs |-> r.fs,
                  store |-> [st EXCEPT !.indexes[<<db_id, table_name>>] = a.index]]

\* DocumentStore::delete_table: DROP TABLE IF EXISTS for the table and its FTS table
DeleteTable(f, base_dir, db_id, table_name) ==
    IF ~is_valid_table_name(table_name) THEN [ok |-> FALSE, fs |-> f]
    ELSE LET f1 == GetPool(f, base_dir, db_id)
         IN  [ok |-> TRUE,
              fs |-> [f1 EXCEPT ![DbKey(base_dir, db_id)].tables =
                         [t \in DOMAIN @ \ {table_name} |-> @[t]]]]

\* DocumentStore::delete_database: the pool is dropped, the file removed
DeleteDatabase(f, base_dir, db_id) ==
    [ok |-> TRUE, fs |-> [k \in DOMAIN f \ {DbKey(base_dir, db_id)} |-> f[k]]]

\* main.rs: the store main configures from vector_index.mode and .threshold
\* ("never" disables, every other mode enables), with features.vector_index on
MainConfiguredStore(c) ==
    ConfigureIndexing(NewDocumentStore(Name_data), c.mode # "never", c.threshold)

\* Two ways the store is wired. In the server (single_store = FALSE) the
\* configured store goes to the background worker and the requests are served
\* by a second DocumentStore::new, which nobody configures. An application
\* that embeds the library (single_store = TRUE) configures the one store it has.
IndexConfigs ==
    [single_store : BOOLEAN, mode : {"auto", "always", "never"}, threshold : 0..MaxThreshold]

InitIndex ==
    /\ chk = IdleChk
    /\ ep = IdleEp
    /\ cfg \in IndexConfigs
    /\ store = IF cfg.single_store THEN MainConfiguredStore(cfg)
               ELSE NewDocumentStore(Name_data)
    /\ fs = DbKey(Name_data, Name_global) :> EmptyDb
    /\ now = 1
    /\ last = IdleLast
    /\ wk = IdlePass
    /\ tasks = <<>>

\* the documents written in this part: one content, with or without its vector
IndexDocument(id, vector) ==
    [id |-> id, content |-> <<1>>, vector |-> vector, created_at |-> now,
     updated_at |-> now, is_embedded |-> IsSome(vector), vectorize |-> TRUE,
     is_chunk |-> FALSE, parent_id |-> None, chunk_index |-> None,
     is_vectorized |-> IsSome(vector)]

IxStoreDocument ==
    \E id \in DocIds, v \in {None, Some(EmbeddingService(<<1>>))} :
        \E r \in {StoreDocument(fs, store.base_dir, Name_main, Name_docs,
                                IndexDocument(id, v))} :
            /\ fs' = r.fs
            /\ last' = [op |-> "store_document", ok |-> r.ok]
            /\ UNCHANGED <<chk, ep, store, cfg, now, wk, tasks>>

\* update_document_vector called on the store that serves the searches
IxUpdateDocumentVector ==
    /\ cfg.single_store
    /\ \E id \in DocIds :
          \E r \in {UpdateDocumentVectorIndexed(store, fs, Name_main, Name_docs, id,
                                                EmbeddingService(<<1>>), now)} :
              /\ fs' = r.fs
              /\ store' = r.store
              /\ last' = [op |-> "update_document_vector", ok |-> r.ok]
    /\ UNCHANGED <<chk, ep, cfg, now, wk, tasks>>

\* update_document_vector called by the background worker on its own store,
\* for a document it fetched; that store never searches, so it has no index
IxWorkerUpdateDocumentVector ==
    /\ ~cfg.single_store
    /\ \E d \in Range(GetNonEmbeddedDocuments(fs, Name_data, Name_main, Name_docs,
                                              MaxEmbeddingWorkers).docs) :
          \E r \in {UpdateDocumentVectorIndexed(MainConfiguredStore(cfg), fs, Name_main,
                                                Name_docs, d.id,
                                                EmbeddingService(d.content), now)} :
              /\ r.store = MainConfiguredStore(cfg)
              /\ fs' = r.fs
              /\ last' = [op |-> "update_document_vector", ok |-> r.ok]
    /\ UNCHANGED <<chk, ep, store, cfg, now, wk, tasks>>

IxSearchVector ==
    \E r \in {SearchVector(store, fs, Name_main, Name_docs, EmbeddingService(<<2>>))} :
        /\ fs' = r.fs
        /\ store' = r.store
        /\ last' = [op |-> "search_vector", ok |-> r.ok, used_index |-> r.used_index,
                    ids |-> r.ids,
                    first |-> <<Name_main, Name_docs>> \notin DOMAIN store.indexes]
        /\ UNCHANGED <<chk, ep, cfg, now, wk, tasks>>

IxDeleteDocument ==
    \E id \in DocIds :
        \E r \in {DeleteDocumentById(fs, store.base_dir, Name_main, Name_docs, id)} :
            /\ fs' = r.fs
            /\ last' = [op |-> "delete_document_by_id", ok |-> r.ok]
            /\ UNCHANGED <<chk, ep, store, cfg, now, wk, tasks>>

IxDeleteTable ==
    \E r \in {DeleteTable(fs, store.base_dir, Name_main, Name_docs)} :
        /\ fs' = r.fs
        /\ last' = [op |-> "delete_table", ok |-> r.ok]
        /\ UNCHANGED <<chk, ep, store, cfg, now, wk, tasks>>

IxDeleteDatabase ==
    \E r \in {DeleteDatabase(fs, store.base_dir, Name_main)} :
        /\ fs' = r.fs
        /\ last' = [op |-> "delete_database", ok |-> r.ok]
        /\ UNCHANGED <<chk, ep, store, cfg, now, wk, tasks>>

SpecIndex ==
    InitIndex /\ [][\/ IxStoreDocument
                    \/ IxUpdateDocumentVector
                    \/ IxWorkerUpdateDocumentVector
                    \/ IxSearchVector
                    \/ IxDeleteDocument
                    \/ IxDeleteTable
                    \/ IxDeleteDatabase]_vars

\* the rows of the table the searches go to, and those with is_embedded = 1
IndexedTableRows ==
    IF HasTable(fs, store.base_dir, Name_main, Name_docs)
    THEN TableRows(fs, store.base_dir, Name_main, Name_docs) ELSE EmptyFn
EmbeddedRowIds == {id \in DOMAIN IndexedTableRows : IndexedTableRows[id].is_embedded = 1}

\* C13: under vector-index mode "always", search_vector uses the HNSW index
\* whenever the table has at least one embedded row, whatever the threshold.
C13_AlwaysModeUsesIndex ==
    (cfg.mode = "always" /\ last.op = "search_vector" /\ last.ok /\ EmbeddedRowIds # {})
        => last.used_index

\* C14: under mode "auto" with threshold T, search_vector uses brute force
\* while the table has fewer than T embedded rows and HNSW once it has at least
\* T; the first vector search after the count reaches T builds the index from
\* all currently embedded rows, so that its len() is the number of embedded rows.
C14_AutoModeFollowsThreshold ==
    (cfg.mode = "auto" /\ last.op = "search_vector" /\ last.ok) =>
        /\ last.used_index <=> Cardinality(EmbeddedRowIds) >= cfg.threshold
        /\ (Cardinality(EmbeddedRowIds) >= cfg.threshold /\ last.first) =>
              /\ <<Name_main, Name_docs>> \in DOMAIN store.indexes
              /\ Cardinality(store.indexes[<<Name_main, Name_docs>>].ids)
                   = Cardinality(EmbeddedRowIds)

\* what does hold: a store that was configured itself follows the threshold,
\* under "auto" and under "always" alike
ConfiguredStoreFollowsThreshold ==
    (cfg.single_store /\ cfg.mode # "never" /\ last.op = "search_vector" /\ last.ok) =>
        /\ last.used_index <=> Cardinality(EmbeddedRowIds) >= cfg.threshold
        /\ (Cardinality(EmbeddedRowIds) >= cfg.threshold /\ last.first) =>
              /\ <<Name_main, Name_docs>> \in DOMAIN store.indexes
              /\ store.indexes[<<Name_main, Name_docs>>].ids = EmbeddedRowIds

\* what does hold: the store that serves the server's requests never uses the index
ServerSearchIsBruteForce ==
    (~cfg.single_store /\ last.op = "search_vector") =>
        (~last.used_index /\ store.indexes = EmptyFn)

\* C15: search_vector on a table that has no embedded row returns an empty
\* result and no error, for every indexing configuration and threshold,
\* including when the HNSW path is selected.
C15_SearchWithoutEmbeddedRowsIsEmpty ==
    (/\ last.op = "search_vector"
     /\ HasTable(fs, store.base_dir, Name_main, Name_docs)
     /\ EmbeddedRowIds = {})
        => (last.ok /\ last.ids = {})

\* C16: after any sequence of store_document, update_document_vector,
\* delete_document_by_id, delete_table and delete_database, every document id
\* held by the vector index of (db, table) names a row that still exists there.
C16_IndexedIdsNameStoredRows ==
    \A key \in DOMAIN store.indexes :
        store.indexes[key].ids \subseteq
            (IF HasTable(fs, store.base_dir, key[1], key[2])
             THEN DOMAIN TableRows(fs, store.base_dir, key[1], key[2]) ELSE {})

\* C17: once the index of (db, table) has been built, every document of the
\* table that becomes embedded afterwards, by update_document_vector or by a
\* store_document carrying a vector, is in the index that serves later searches
\* (the build itself takes every row embedded before it).
C17_IndexFollowsNewEmbeddings ==
    <<Name_main, Name_docs>> \in DOMAIN store.indexes =>
        EmbeddedRowIds \subseteq store.indexes[<<Name_main, Name_docs>>].ids

\* what does hold: the build takes every embedded row, and update_document_vector
\* on the store that holds the index adds the document to it
IndexFollowsBuildAndUpdate ==
    [][/\ (last'.op = "search_vector" /\ last'.ok /\ last'.used_index /\ last'.first)
             => EmbeddedRowIds' \subseteq store'.indexes[<<Name_main, Name_docs>>].ids
       /\ (/\ cfg.single_store
           /\ last'.op = "update_document_vector" /\ last'.ok
           /\ <<Name_main, Name_docs>> \in DOMAIN store.indexes)
             => \A id \in EmbeddedRowIds' \ EmbeddedRowIds :
                   id \in store'.indexes[<<Name_main, Name_docs>>].ids]_vars

\* ---------------------------------------------------------------------------
\* Embedding cache (cache.rs) and the embedder's use of it (embedder.rs)
\* ---------------------------------------------------------------------------

\* hash_content: SHA-256 of the content, taken as collision free on the
\* contents of the model.
HashContent(content) == [sha256 |-> content]

\* serialize_vector: every f32 (its 32 bit pattern) as four little-endian bytes.
SerializeVector(vector) ==
    [i \in 1..(4 * Len(vector)) |->
        (vector[((i - 1) \div 4) + 1] \div (256 ^ ((i - 1) % 4))) % 256]

\* deserialize_vector: chunks_exact(4), each chunk read as a little-endian u32.
DeserializeVector(bytes) ==
    [j \in 1..(Len(bytes) \div 4) |->
        bytes[4 * (j - 1) + 1] + 256 * bytes[4 * (j - 1) + 2]
          + 65536 * bytes[4 * (j - 1) + 3] + 16777216 * bytes[4 * (j - 1) + 4]]

\* Vectors of one f32 each, as bit patterns: 1.0f32 and 2.0f32.
CacheVectors == {<<1065353216>>, <<1073741824>>}
CacheContents == {<<1>>, <<2>>}
CacheModels == {"default", "other"}

\* LruCache: a sequence of entries, least recently used first.
LruWithout(entries, key) == SelectSeq(entries, LAMBDA e : e.key # key)

LruGet(entries, key) ==
    IF \E i \in 1..Len(entries) : entries[i].key = key
    THEN LET e == entries[CHOOSE i \in 1..Len(entries) : entries[i].key = key]
         IN  [hit |-> TRUE, value |-> e.value,
              entries |-> Append(LruWithout(entries, key), e)]
    ELSE [hit |-> FALSE, value |-> <<>>, entries |-> entries]

LruPut(entries, capacity, key, value) ==
    LET kept == LruWithout(entries, key)
        room == IF Len(kept) >= capacity THEN Tail(kept) ELSE kept
    IN  Append(room, [key |-> key, value |-> value])

\* EmbeddingCache::new: an empty memory cache and zeroed statistics.
NewEmbeddingCache(model, memory_capacity) ==
    [memory_cache |-> <<>>, capacity |-> memory_capacity, model |-> model,
     hits |-> [memory_hits |-> 0, disk_hits |-> 0, misses |-> 0]]

\* EmbeddingCache::get: memory, then the disk row of (content_hash, model).
CacheGet(cache, table, content) ==
    LET hash == HashContent(content)
        mem == LruGet(cache.memory_cache, hash)
    IN  IF mem.hit
        THEN [cache |-> [cache EXCEPT !.memory_cache = mem.entries,
                                      !.hits.memory_hits = @ + 1],
              result |-> Some(mem.value)]
        ELSE IF hash \in DOMAIN table /\ table[hash].model = cache.model
        THEN LET vector == DeserializeVector(table[hash].vector)
             IN  [cache |-> [cache EXCEPT
                               !.memory_cache =
                                   LruPut(@, cache.capacity, hash, vector),
                               !.hits.disk_hits = @ + 1],
                  result |-> Some(vector)]
        ELSE [cache |-> [cache EXCEPT !.hits.misses = @ + 1], result |-> None]

\* INSERT .. ON CONFLICT(content_hash) DO UPDATE SET vector, created_at.
UpsertCacheRow(table, hash, vector_bytes, model, t) ==
    IF hash \in DOMAIN table
    THEN [table EXCEPT ![hash].vector = vector_bytes, ![hash].created_at = t]
    ELSE (hash :> [vector |-> vector_bytes, model |-> model, created_at |-> t])
            @@ table

\* A put that writes the disk row and leaves the memory cache alone.
CachePutDiskOnly(cache, table, content, vector, t) ==
    [cache |-> cache,
     table |-> UpsertCacheRow(table, HashContent(content),
                              SerializeVector(vector), cache.model, t)]

\* EmbeddingCache::put: the disk row first, then the memory cache.
CachePut(cache, table, content, vector, t) ==
    [cache |-> [cache EXCEPT !.memory_cache =
                    LruPut(@, cache.capacity, HashContent(content), vector)],
     table |-> UpsertCacheRow(table, HashContent(content),
                              SerializeVector(vector), cache.model, t)]

\* EmbeddingCache::clear_memory.
ClearMemory(cache) == [cache EXCEPT !.memory_cache = <<>>]

\* EmbeddingCache::evict_old: DELETE .. WHERE created_at < now - days.
EvictOld(table, days, t) ==
    [h \in {k \in DOMAIN table : ~(table[k].created_at < t - days)} |-> table[h]]

\* The dimension the embedder is constructed with.
EmbedderDimensions == 1

\* What the embedding service may answer to one request: no usable answer
\* (transport error, non-2xx status, empty data), or data[0].embedding.
EmbeddingResponses ==
    {None} \cup {Some(v) : v \in CacheVectors \cup {<<1065353216, 1065353216>>}}

\* OpenAIEmbedder::embed with a cache bound: get, on a miss one request to
\* the service, and a put of the vector it answered.
CachedEmbed(cache, table, text, response, t) ==
    LET got == CacheGet(cache, table, text)
    IN  IF IsSome(got.result)
        THEN [cache |-> got.cache, table |-> table, requests |-> 0,
              result |-> got.result]
        ELSE IF IsSome(response) /\ Len(Unwrap(response)) = EmbedderDimensions
        THEN LET written == CachePut(got.cache, table, text, Unwrap(response), t)
             IN  [cache |-> written.cache, table |-> written.table,
                  requests |-> 1, result |-> response]
        ELSE [cache |-> got.cache, table |-> table, requests |-> 1,
              result |-> None]

\* The embedding_cache table of the process-wide global database file.
CacheTable == fs[<<Name_data, Name_global>>].embedding_cache

\* Caches of two models over one pool, newly constructed over an empty table;
\* the embedder is bound to the cache of model "default".  ep.put holds, per
\* cache and content, the vector of a put that no later put of that content
\* and no evict_old has followed; ep.written holds every vector ever put
\* through the cache; ep.log holds the first operations of the run.
InitCache ==
    /\ \E capacity \in 1..MaxMemoryCapacity :
          ep = [caches |-> [m \in CacheModels |-> NewEmbeddingCache(m, capacity)],
                requests |-> 0, steps |-> 0, log |-> <<>>,
                put |-> [k \in CacheModels \X CacheContents |-> None],
                written |-> [k \in CacheModels \X CacheContents |-> {}]]
    /\ fs = (<<Name_data, Name_global>> :> [embedding_cache |-> EmptyFn])
    /\ now = 0
    /\ chk = IdleChk
    /\ store = IdleStore
    /\ cfg = IdleCfg
    /\ last = IdleLast
    /\ wk = IdlePass
    /\ tasks = <<>>

Logged(entry) == IF Len(ep.log) < 2 THEN Append(ep.log, entry) ELSE ep.log

OpCachePut ==
    /\ ep.steps < MaxCacheOps
    /\ \E m \in CacheModels, c \in CacheContents, v \in CacheVectors :
         \E r \in {CachePut(ep.caches[m], CacheTable, c, v, now)} :
            /\ ep' = [ep EXCEPT
                        !.caches[m] = r.cache, !.steps = @ + 1,
                        !.log = Logged([op |-> "put"]),
                        !.put = [k \in DOMAIN @ |->
                                   IF k = <<m, c>> THEN Some(v)
                                   ELSE IF k[2] = c THEN None ELSE @[k]],
                        !.written[<<m, c>>] = @ \cup {v}]
            /\ fs' = [fs EXCEPT ![<<Name_data, Name_global>>].embedding_cache = r.table]
            /\ last' = [op |-> "put", model |-> m, content |-> c, result |-> Some(v)]
    /\ UNCHANGED <<chk, store, cfg, now, wk, tasks>>

OpCacheGet ==
    /\ ep.steps < MaxCacheOps
    /\ \E m \in CacheModels, c \in CacheContents :
         \E r \in {CacheGet(ep.caches[m], CacheTable, c)} :
            /\ ep' = [ep EXCEPT !.caches[m] = r.cache, !.steps = @ + 1,
                                !.log = Logged([op |-> "get"])]
            /\ last' = [op |-> "get", model |-> m, content |-> c, result |-> r.result]
    /\ UNCHANGED <<chk, fs, store, cfg, now, wk, tasks>>

OpClearMemory ==
    /\ ep.steps < MaxCacheOps
    /\ \E m \in CacheModels :
         /\ ep' = [ep EXCEPT !.caches[m] = ClearMemory(@), !.steps = @ + 1,
                             !.log = Logged([op |-> "clear_memory"])]
         /\ last' = [op |-> "clear_memory", model |-> m]
    /\ UNCHANGED <<chk, fs, store, cfg, now, wk, tasks>>

OpEvictOld ==
    /\ ep.steps < MaxCacheOps
    /\ \E days \in 0..MaxDays :
         /\ fs' = [fs EXCEPT ![<<Name_data, Name_global>>].embedding_cache =
                                EvictOld(@, days, now)]
         /\ ep' = [ep EXCEPT !.steps = @ + 1,
                             !.log = Logged([op |-> "evict_old"]),
                             !.put = [k \in DOMAIN @ |-> None]]
         /\ last' = [op |-> "evict_old", days |-> days]
    /\ UNCHANGED <<chk, store, cfg, now, wk, tasks>>

OpEmbed ==
    /\ ep.steps < MaxCacheOps
    /\ \E text \in CacheContents, response \in EmbeddingResponses :
         \E r \in {CachedEmbed(ep.caches["default"], CacheTable, text, response, now)} :
            /\ ep' = [ep EXCEPT
                        !.caches["default"] = r.cache, !.steps = @ + 1,
                        !.requests = @ + r.requests,
                        !.log = Logged([op |-> "embed", text |-> text,
                                        ok |-> IsSome(r.result)]),
                        !.put = IF r.requests = 0 \/ ~IsSome(r.result) THEN @
                                ELSE [k \in DOMAIN @ |->
                                        IF k = <<"default", text>> THEN r.result
                                        ELSE IF k[2] = text THEN None ELSE @[k]],
                        !.written[<<"default", text>>] =
                            IF r.requests = 0 \/ ~IsSome(r.result) THEN @
                            ELSE @ \cup {Unwrap(r.result)}]
            /\ fs' = [fs EXCEPT ![<<Name_data, Name_global>>].embedding_cache = r.table]
            /\ last' = [op |-> "embed", model |-> "default", content |-> text,
                        result |-> r.result]
    /\ UNCHANGED <<chk, store, cfg, now, wk, tasks>>

\* Utc::now() moves on between operations.
CacheClock ==
    /\ now < MaxStamp
    /\ now' = now + 1
    /\ UNCHANGED <<chk, ep, fs, store, cfg, last, wk, tasks>>

SpecCache ==
    InitCache /\ [][OpCachePut \/ OpCacheGet \/ OpClearMemory \/ OpEvictOld
                      \/ OpEmbed \/ CacheClock]_vars

\* What get(content) on the cache of a model returns in the current state.
GetResult(m, c) == CacheGet(ep.caches[m], CacheTable, c).result

\* C18: after put(c, v) on a cache has completed, get(c) on that cache
\* returns v as long as no put of c and no evict_old has followed, whatever
\* other puts, gets, memory evictions and clear_memory calls happened since.
C18_GetReturnsLastPut ==
    \A k \in DOMAIN ep.put :
        IsSome(ep.put[k]) => GetResult(k[1], k[2]) = ep.put[k]

\* The same, for a content whose disk row carries the model of the cache.
GetReturnsLastPutOfOwnRow ==
    \A k \in DOMAIN ep.put :
        (/\ IsSome(ep.put[k])
         /\ CacheTable[HashContent(k[2])].model = k[1])
            => GetResult(k[1], k[2]) = ep.put[k]

\* C19: a get on the cache of a model returns only a vector that was put
\* through a cache of that model, also when caches of different models share
\* the disk table and put the same content.
C19_GetScopedByModel ==
    \A k \in DOMAIN ep.written :
        IsSome(GetResult(k[1], k[2]))
            => Unwrap(GetResult(k[1], k[2])) \in ep.written[k]

\* Two embed calls of one text are the first two calls of the run, on the
\* newly constructed cache, and the service answered the first.
TwoEmbedsOfOneText ==
    /\ ep.steps = 2
    /\ ep.log[1].op = "embed" /\ ep.log[2].op = "embed"
    /\ ep.log[1].text = ep.log[2].text
    /\ ep.log[1].ok

\* C20: with a newly constructed cache bound to the embedder, two consecutive
\* embed calls of the same text, the first answered by the service, issue
\* exactly one request, and the statistics are then memory_hits = 1,
\* misses = 1, disk_hits = 0.
C20_SecondEmbedHitsMemory ==
    TwoEmbedsOfOneText
        => /\ ep.requests = 1
           /\ ep.caches["default"].hits =
                 [memory_hits |-> 1, disk_hits |-> 0, misses |-> 1]

C20_Witness == TwoEmbedsOfOneText /\ ep.log[2].ok

\* ---------------------------------------------------------------------------
\* The embedder across server runs (main.rs, embedder.rs): the disk cache in
\* global.db outlives the process, config.embedding_dimensions is read anew
\* at every start
\* ---------------------------------------------------------------------------

\* embed_uncached: the answer of the service, checked against self.dimensions.
EmbedUncached(dimensions, response) ==
    IF IsSome(response) /\ Len(Unwrap(response)) = dimensions
    THEN response
    ELSE None

\* OpenAIEmbedder::embed of an embedder declared with `dimensions`.
EmbedWithDimensions(dimensions, cache, table, text, response, t) ==
    LET got == CacheGet(cache, table, text)
    IN  IF IsSome(got.result)
        THEN [cache |-> got.cache, table |-> table, requests |-> 0,
              result |-> got.result]
        ELSE IF IsSome(EmbedUncached(dimensions, response))
        THEN LET written == CachePut(got.cache, table, text, Unwrap(response), t)
             IN  [cache |-> written.cache, table |-> written.table,
                  requests |-> 1, result |-> response]
        ELSE [cache |-> got.cache, table |-> table, requests |-> 1,
              result |-> None]

\* Embeddings the service may answer, of one and of two elements.
ServiceEmbeddings == {<<1065353216>>, <<1073741824, 1065353216>>}

\* main: the cache of model "default" with 10_000 memory entries in the
\* server, and the embedder of config.embedding_dimensions bound to it.
StartEmbedder(dimensions, capacity) ==
    [cache |-> NewEmbeddingCache("default", capacity), dimensions |-> dimensions,
     requests |-> 0, steps |-> 0]

InitEmbedder ==
    /\ \E d \in 1..MaxDimensions, capacity \in 1..MaxMemoryCapacity :
          ep = StartEmbedder(d, capacity)
    /\ fs = (<<Name_data, Name_global>> :> [embedding_cache |-> EmptyFn])
    /\ now = 0
    /\ chk = IdleChk
    /\ store = IdleStore
    /\ cfg = IdleCfg
    /\ last = IdleLast
    /\ wk = IdlePass
    /\ tasks = <<>>

EmbedderEmbed ==
    /\ ep.steps < MaxEmbedCalls
    /\ \E text \in CacheContents, response \in {None} \cup {Some(v) : v \in ServiceEmbeddings} :
         \E r \in {EmbedWithDimensions(ep.dimensions, ep.cache, CacheTable, text, response, now)} :
            /\ ep' = [ep EXCEPT !.cache = r.cache, !.steps = @ + 1,
                                !.requests = @ + r.requests]
            /\ fs' = [fs EXCEPT ![<<Name_data, Name_global>>].embedding_cache = r.table]
            /\ last' = [op |-> "embed", content |-> text, response |-> response,
                        requests |-> r.requests, result |-> r.result,
                        table_before |-> CacheTable, runs |-> 
                            IF "runs" \in DOMAIN last THEN last.runs ELSE 1]
    /\ UNCHANGED <<chk, store, cfg, now, wk, tasks>>

\* The server is stopped and started again, possibly with another
\* embedding_dimensions in its configuration; global.db stays.
EmbedderRestart ==
    /\ ep.steps < MaxEmbedCalls
    /\ \E d \in 1..MaxDimensions :
          ep' = [StartEmbedder(d, ep.cache.capacity) EXCEPT !.steps = ep.steps + 1]
    /\ last' = [op |-> "restart", runs |-> 2]
    /\ UNCHANGED <<chk, fs, store, cfg, now, wk, tasks>>

SpecEmbedder == InitEmbedder /\ [][EmbedderEmbed \/ EmbedderRestart]_vars

\* C21: every vector a successful embed returns has exactly D elements, D the
\* embedder's declared dimension, from the service as from a cache hit in
\* either tier; a service answer of another length makes embed fail and
\* writes nothing to the cache.
C21_EmbedReturnsDeclaredDimension ==
    last.op = "embed" =>
        /\ IsSome(last.result) => Len(Unwrap(last.result)) = ep.dimensions
        /\ (/\ last.requests = 1
            /\ IsSome(last.response)
            /\ Len(Unwrap(last.response)) # ep.dimensions)
              => (~IsSome(last.result) /\ CacheTable = last.table_before)

\* The same within one run of the server, the cache written by this embedder
\* only.
EmbedReturnsDeclaredDimensionInFirstRun ==
    (last.op = "embed" /\ last.runs = 1) =>
        /\ IsSome(last.result) => Len(Unwrap(last.result)) = ep.dimensions
        /\ (/\ last.requests = 1
            /\ IsSome(last.response)
            /\ Len(Unwrap(last.response)) # ep.dimensions)
              => (~IsSome(last.result) /\ CacheTable = last.table_before)

\* ---------------------------------------------------------------------------
\* Hybrid search: reciprocal rank fusion (search.rs)
\* ---------------------------------------------------------------------------

\* HybridSearcher::new: the RRF parameter k.
RrfK == 60

\* Scores are kept as exact fractions num/den with den > 0.
ScoreAdd(a, b) == [num |-> a.num * b.den + b.num * a.den, den |-> a.den * b.den]
ScoreEq(a, b) == a.num * b.den = b.num * a.den
ScoreLess(a, b) == a.num * b.den < b.num * a.den

\* A contribution counted from a one-based rank.
RrfScoreOneBased(k, rank) == [num |-> 1, den |-> k + rank]

\* 1.0 / (self.k as f64 + rank as f64 + 1.0), rank from enumerate()
RrfScore(k, rank) == [num |-> 1, den |-> k + rank + 1]

\* The first loop: scores.insert(id, (rrf_score, Some(fts_score), None, ..))
RECURSIVE AddFtsRanks(_, _, _)
AddFtsRanks(scores, fts_results, i) ==
    IF i > Len(fts_results) THEN scores
    ELSE LET entry == [score |-> RrfScore(RrfK, i - 1), fts_rank |-> TRUE,
                       vector_similarity |-> FALSE]
             next == IF fts_results[i] \in DOMAIN scores
                     THEN [scores EXCEPT ![fts_results[i]] = entry]
                     ELSE scores @@ (fts_results[i] :> entry)
         IN  AddFtsRanks(next, fts_results, i + 1)

\* The second loop: scores.entry(id).and_modify(..).or_insert(..)
RECURSIVE AddVectorRanks(_, _, _)
AddVectorRanks(scores, vector_results, i) ==
    IF i > Len(vector_results) THEN scores
    ELSE LET id == vector_results[i]
             rrf_score == RrfScore(RrfK, i - 1)
             next == IF id \in DOMAIN scores
                     THEN [scores EXCEPT ![id].score = ScoreAdd(@, rrf_score),
                                         ![id].vector_similarity = TRUE]
                     ELSE scores @@ (id :> [score |-> rrf_score, fts_rank |-> FALSE,
                                            vector_similarity |-> TRUE])
         IN  AddVectorRanks(next, vector_results, i + 1)

\* <[T]>::sort_by(|a, b| b.score.partial_cmp(&a.score)): a stable sort, the
\* higher score first; an element goes behind every element not below it.
RECURSIVE SortByScore(_, _)
SortByScore(results, i) ==
    IF i > Len(results) THEN <<>>
    ELSE LET sorted == SortByScore(results, i + 1)
             x == results[i]
             \* x precedes the sorted rest of its successors that do not beat it
             ahead == SelectSeq(sorted, LAMBDA y : ScoreLess(x.score, y.score))
             behind == SelectSeq(sorted, LAMBDA y : ~ScoreLess(x.score, y.score))
         IN  ahead \o <<x>> \o behind

\* The orders in which HashMap::into_iter may hand out the entries of a map
\* with the key set S: std's RandomState seeds every HashMap anew.
IterationOrders(S) ==
    {o \in [1..Cardinality(S) -> S] : \A i, j \in 1..Cardinality(S) : o[i] = o[j] => i = j}

\* reciprocal_rank_fusion, `order` being the order the HashMap iterates in.
ReciprocalRankFusion(fts_results, vector_results, order) ==
    LET scores == AddVectorRanks(AddFtsRanks(EmptyFn, fts_results, 1), vector_results, 1)
        results == [i \in 1..Len(order) |->
                      [id |-> order[i], score |-> scores[order[i]].score,
                       fts_rank |-> scores[order[i]].fts_rank,
                       vector_similarity |-> scores[order[i]].vector_similarity]]
    IN  SortByScore(results, 1)

\* merged.into_iter().take(limit).collect()
Take(results, limit) == SubSeq(results, 1, Min(limit, Len(results)))

\* Result lists of search_fts and search_vector: every document at most once.
FusionDocs == 1..MaxFusionDocs
RankedLists ==
    {l \in UNION {[1..n -> FusionDocs] : n \in 0..MaxFusionDocs} :
        \A i, j \in 1..Len(l) : l[i] = l[j] => i = j}

\* One query: its two result lists and its limit are fixed, the fusion runs
\* once per search call.
InitFusion ==
    /\ \E f \in RankedLists, v \in RankedLists, limit \in 1..MaxFusionDocs :
          last = [op |-> "search", fts_results |-> f, vector_results |-> v,
                  limit |-> limit, merged |-> <<>>, runs |-> <<>>]
    /\ fs = EmptyFn
    /\ now = 0
    /\ chk = IdleChk
    /\ ep = IdleEp
    /\ store = IdleStore
    /\ cfg = IdleCfg
    /\ wk = IdlePass
    /\ tasks = <<>>

HybridSearch ==
    /\ Len(last.runs) < MaxFusionRuns
    /\ \E order \in IterationOrders(Range(last.fts_results) \cup Range(last.vector_results)) :
         \E merged \in {ReciprocalRankFusion(last.fts_results, last.vector_results, order)} :
            last' = [last EXCEPT !.merged = Append(@, merged),
                                 !.runs = Append(@, Take(merged, last.limit))]
    /\ UNCHANGED <<chk, ep, fs, store, cfg, now, wk, tasks>>

SpecFusion == InitFusion /\ [][HybridSearch]_vars

\* The zero-based positions of a document in a list.
PositionsIn(list, id) == {i - 1 : i \in {j \in 1..Len(list) : list[j] = id}}

\* C22: the fused score of a document is the sum, over the FTS list and the
\* vector list it appears in, of 1/(60 + r + 1), r its zero-based position
\* there; so a document in both lists never scores below a document that is
\* in one list only, at a position the first document has too.
C22_FusedScoreIsSumOfReciprocalRanks ==
    \A n \in 1..Len(last.merged) :
      \A i \in 1..Len(last.merged[n]) :
        LET x == last.merged[n][i]
            pf == PositionsIn(last.fts_results, x.id)
            pv == PositionsIn(last.vector_results, x.id)
        IN  /\ (pf # {} /\ pv = {}) =>
                 \E r \in pf : ScoreEq(x.score, [num |-> 1, den |-> 60 + r + 1])
            /\ (pf = {} /\ pv # {}) =>
                 \E r \in pv : ScoreEq(x.score, [num |-> 1, den |-> 60 + r + 1])
            /\ (pf # {} /\ pv # {}) =>
                 /\ \E r \in pf, q \in pv :
                       ScoreEq(x.score, [num |-> (60 + r + 1) + (60 + q + 1),
                                         den |-> (60 + r + 1) * (60 + q + 1)])
                 /\ \A j \in 1..Len(last.merged[n]) :
                       LET y == last.merged[n][j]
                           qf == PositionsIn(last.fts_results, y.id)
                           qv == PositionsIn(last.vector_results, y.id)
                       IN  ((qf = {}) # (qv = {}) /\ (qf \cup qv) \cap (pf \cup pv) # {})
                              => ~ScoreLess(x.score, y.score)

C22_Witness ==
    /\ Len(last.merged) > 0
    /\ \E i, j \in 1..Len(last.merged[1]) :
          /\ last.merged[1][i].fts_rank /\ last.merged[1][i].vector_similarity
          /\ last.merged[1][j].fts_rank # last.merged[1][j].vector_similarity

\* C23: two runs of the fusion on the same FTS list and the same vector list
\* return the documents in the same order, also with equal fused scores, so
\* the cut at `limit` selects the same documents.
C23_FusionDeterministicOnTies ==
    Len(last.runs) = 2 =>
        /\ last.merged[1] = last.merged[2]
        /\ last.runs[1] = last.runs[2]

\* Two runs give the same documents the same scores, and each run is ordered
\* by descending score; only the order among equal scores is open.
FusionRunsAgreeUpToTies ==
    Len(last.runs) = 2 =>
        /\ Range(last.merged[1]) = Range(last.merged[2])
        /\ \A n \in 1..2 : \A i \in 1..(Len(last.merged[n]) - 1) :
              ~ScoreLess(last.merged[n][i].score, last.merged[n][i + 1].score)

\* ---------------------------------------------------------------------------
\* Graph algorithms over document relations (graph.rs)
\* ---------------------------------------------------------------------------

GraphNodes == 1..MaxGraphNodes
RelationTypes == {"references", "contradicts"}

\* The relation slices handed to the graph functions.
RelationLists ==
    UNION {[1..n -> [source_id : GraphNodes, target_id : GraphNodes,
                     relation_type : RelationTypes]] : n \in 0..MaxGraphRelations}

\* build_graph: the nodes are the endpoints of the relations.
GraphNodeMap(relations) ==
    {relations[i].source_id : i \in 1..Len(relations)}
        \cup {relations[i].target_id : i \in 1..Len(relations)}

\* Neighbours over the edges taken in both directions.
RECURSIVE NeighborsUndirected(_, _, _)
NeighborsUndirected(relations, n, i) ==
    IF i = 0 THEN <<>>
    ELSE (IF relations[i].source_id = n THEN <<relations[i].target_id>>
          ELSE IF relations[i].target_id = n THEN <<relations[i].source_id>>
          ELSE <<>>)
            \o NeighborsUndirected(relations, n, i - 1)

\* graph.neighbors(n): the targets of the edges leaving n; petgraph walks the
\* edges of a node from the one added last to the one added first.
RECURSIVE Neighbors(_, _, _)
Neighbors(relations, n, i) ==
    IF i = 0 THEN <<>>
    ELSE (IF relations[i].source_id = n THEN <<relations[i].target_id>> ELSE <<>>)
            \o Neighbors(relations, n, i - 1)

\* graph.neighbors_directed(n, Incoming), in the same order.
RECURSIVE NeighborsIncoming(_, _, _)
NeighborsIncoming(relations, n, i) ==
    IF i = 0 THEN <<>>
    ELSE (IF relations[i].target_id = n THEN <<relations[i].source_id>> ELSE <<>>)
            \o NeighborsIncoming(relations, n, i - 1)

\* The inner loops of traverse_bfs over nodes_at_depth[i..] and, for node
\* nodes_at_depth[i], its neighbours[j..]; st holds visited, depth_map and
\* next_depth_nodes.
RECURSIVE BfsLevel(_, _, _, _, _, _)
BfsLevel(relations, nodes_at_depth, current_depth, st, i, j) ==
    IF i > Len(nodes_at_depth) THEN st
    ELSE LET ns == Neighbors(relations, nodes_at_depth[i], Len(relations))
         IN  IF j > Len(ns)
             THEN BfsLevel(relations, nodes_at_depth, current_depth, st, i + 1, 1)
             ELSE IF ns[j] \in DOMAIN st.depth_map
             THEN BfsLevel(relations, nodes_at_depth, current_depth, st, i, j + 1)
             ELSE BfsLevel(relations, nodes_at_depth, current_depth,
                           [visited |-> Append(st.visited, ns[j]),
                            depth_map |-> st.depth_map @@ (ns[j] :> current_depth + 1),
                            next_depth_nodes |-> Append(st.next_depth_nodes, ns[j])],
                           i, j + 1)

\* while current_depth < max_depth && !nodes_at_depth.is_empty()
RECURSIVE BfsLoop(_, _, _, _, _)
BfsLoop(relations, max_depth, current_depth, nodes_at_depth, st) ==
    IF current_depth < max_depth /\ nodes_at_depth # <<>>
    THEN LET after == BfsLevel(relations, nodes_at_depth, current_depth,
                               [st EXCEPT !.next_depth_nodes = <<>>], 1, 1)
         IN  BfsLoop(relations, max_depth, current_depth + 1,
                     after.next_depth_nodes, after)
    ELSE st

\* DocumentGraph::traverse_bfs; relation_type_filter is None or Some(types).
TraverseBfs(start_id, relations, max_depth, relation_type_filter) ==
    LET filtered_relations ==
            IF IsSome(relation_type_filter)
            THEN SelectSeq(relations,
                           LAMBDA r : r.relation_type \in Unwrap(relation_type_filter))
            ELSE relations
    IN  IF start_id \notin GraphNodeMap(filtered_relations)
        THEN [document_ids |-> <<>>, relations |-> <<>>, depth_map |-> EmptyFn]
        ELSE LET st == BfsLoop(filtered_relations, max_depth, 0, <<start_id>>,
                               [visited |-> <<start_id>>,
                                depth_map |-> (start_id :> 0),
                                next_depth_nodes |-> <<>>])
             IN  [document_ids |-> st.visited,
                  relations |-> SelectSeq(filtered_relations,
                                   LAMBDA r : /\ r.source_id \in Range(st.visited)
                                              /\ r.target_id \in Range(st.visited)),
                  depth_map |-> st.depth_map]

\* petgraph::algo::dijkstra with every edge cost 1: the distances from
\* from_id.  With a goal the search stops when the goal is popped; the nodes
\* nearer than the goal and the goal itself are then in the map with their
\* final distances, which is all the reconstruction reads.
Dijkstra(relations, from_id) ==
    BfsLoop(relations, Len(relations) + 1, 0, <<from_id>>,
            [visited |-> <<from_id>>, depth_map |-> (from_id :> 0),
             next_depth_nodes |-> <<>>]).depth_map

\* The first predecessor with pred_dist + 1 == curr_dist.
PredecessorOf(relations, distances, current) ==
    LET ps == NeighborsIncoming(relations, current, Len(relations))
        ok == {k \in 1..Len(ps) : /\ ps[k] \in DOMAIN distances
                                  /\ distances[ps[k]] + 1 = distances[current]}
    IN  IF ok = {} THEN None
        ELSE Some(ps[CHOOSE k \in ok : \A l \in ok : k <= l])

\* while current != from_idx: the path from to_id back to from_id, reversed;
\* fuel bounds the walk by the number of nodes.
RECURSIVE ReconstructPath(_, _, _, _, _, _)
ReconstructPath(relations, distances, from_id, current, path, fuel) ==
    IF current = from_id THEN Some(path)
    ELSE IF fuel = 0 THEN None
    ELSE LET p == PredecessorOf(relations, distances, current)
         IN  IF ~IsSome(p) THEN None
             ELSE ReconstructPath(relations, distances, from_id, Unwrap(p),
                                  <<Unwrap(p)>> \o path, fuel - 1)

\* for i in 0..path.len() - 1: the first relation joining path[i] to path[i+1]
PathRelations(relations, path) ==
    [i \in 1..(Len(path) - 1) |->
        relations[CHOOSE k \in 1..Len(relations) :
                     /\ relations[k].source_id = path[i]
                     /\ relations[k].target_id = path[i + 1]
                     /\ \A l \in 1..(k - 1) :
                           ~(/\ relations[l].source_id = path[i]
                             /\ relations[l].target_id = path[i + 1])]]

\* DocumentGraph::shortest_path: None, or Some([path, relations, total_weight])
ShortestPath(from_id, to_id, relations) ==
    IF from_id \notin GraphNodeMap(relations) THEN None
    ELSE IF to_id \notin GraphNodeMap(relations) THEN None
    ELSE LET distances == Dijkstra(relations, from_id)
         IN  IF to_id \notin DOMAIN distances THEN None
             ELSE LET path == ReconstructPath(relations, distances, from_id, to_id,
                                              <<to_id>>, MaxGraphNodes + MaxGraphRelations)
                  IN  IF ~IsSome(path) THEN None
                      ELSE Some([path |-> Unwrap(path),
                                 relations |-> PathRelations(relations, Unwrap(path)),
                                 total_weight |-> distances[to_id]])

\* The relations a graph endpoint of the API loads from document_relations and
\* hands to one graph function.
InitGraph ==
    /\ \E relations \in RelationLists :
          last = [op |-> "relations", relations |-> relations]
    /\ fs = EmptyFn
    /\ now = 0
    /\ chk = IdleChk
    /\ ep = IdleEp
    /\ store = IdleStore
    /\ cfg = IdleCfg
    /\ wk = IdlePass
    /\ tasks = <<>>

GraphTraverse ==
    /\ last.op = "relations"
    /\ \E start_id \in GraphNodes, max_depth \in 0..MaxGraphDepth,
          filter \in {None} \cup {Some({t}) : t \in RelationTypes} :
          last' = [op |-> "traverse_bfs", relations |-> last.relations,
                   start_id |-> start_id, max_depth |-> max_depth,
                   relation_type_filter |-> filter,
                   result |-> TraverseBfs(start_id, last.relations, max_depth, filter)]
    /\ UNCHANGED <<chk, ep, fs, store, cfg, now, wk, tasks>>

GraphShortestPath ==
    /\ last.op = "relations"
    /\ \E from_id \in GraphNodes, to_id \in GraphNodes :
          last' = [op |-> "shortest_path", relations |-> last.relations,
                   from_id |-> from_id, to_id |-> to_id,
                   result |-> ShortestPath(from_id, to_id, last.relations)]
    /\ UNCHANGED <<chk, ep, fs, store, cfg, now, wk, tasks>>

SpecGraph == InitGraph /\ [][GraphTraverse \/ GraphShortestPath]_vars

\* The directed edges of a relation list, and the least number of hops of a
\* walk from a to b over them (-1 when there is none; a = b has the walk of
\* no hops).
EdgesOf(relations) ==
    {<<relations[i].source_id, relations[i].target_id>> : i \in 1..Len(relations)}

WalkExists(E, a, b, n) ==
    \E p \in [1..(n + 1) -> GraphNodes] :
        /\ p[1] = a
        /\ p[n + 1] = b
        /\ \A i \in 1..n : <<p[i], p[i + 1]>> \in E

GraphDistance(E, a, b) ==
    IF \E n \in 0..(MaxGraphNodes - 1) : WalkExists(E, a, b, n)
    THEN CHOOSE n \in 0..(MaxGraphNodes - 1) :
            /\ WalkExists(E, a, b, n)
            /\ \A k \in 0..(n - 1) : ~WalkExists(E, a, b, k)
    ELSE -1

\* The relations of the last traversal that pass its filter.
LastFiltered ==
    IF IsSome(last.relation_type_filter)
    THEN SelectSeq(last.relations,
                   LAMBDA r : r.relation_type \in Unwrap(last.relation_type_filter))
    ELSE last.relations

\* C24: traverse_bfs from a start that is an endpoint of a filter-passing
\* relation visits exactly the nodes whose shortest directed distance from the
\* start over the filter-passing edges is at most max_depth, depth_map gives
\* every visited node that distance, and depth[v] <= depth[u] + 1 for every
\* edge u -> v between visited nodes.
C24_BfsVisitsByShortestDistance ==
    (last.op = "traverse_bfs" /\ last.start_id \in GraphNodeMap(LastFiltered)) =>
        LET E == EdgesOf(LastFiltered)
            visited == Range(last.result.document_ids)
        IN  /\ visited = {v \in GraphNodes :
                            GraphDistance(E, last.start_id, v) \in 0..last.max_depth}
            /\ DOMAIN last.result.depth_map = visited
            /\ \A v \in visited :
                  last.result.depth_map[v] = GraphDistance(E, last.start_id, v)
            /\ \A e \in E : (e[1] \in visited /\ e[2] \in visited) =>
                  last.result.depth_map[e[2]] <= last.result.depth_map[e[1]] + 1

\* The traversal of edges A->B, B->C, A->C with depth 2: A:0, B:1, C:1.
C24_Witness ==
    /\ last.op = "traverse_bfs"
    /\ last.start_id = 1 /\ last.max_depth = 2
    /\ EdgesOf(LastFiltered) = {<<1, 2>>, <<2, 3>>, <<1, 3>>}
    /\ last.result.depth_map = (1 :> 0) @@ (2 :> 1) @@ (3 :> 1)

\* What a found path has to be, for the distance d of its end points.
PathIsShortest(r, from_id, to_id, relations, d) ==
    /\ r.path[1] = from_id
    /\ r.path[Len(r.path)] = to_id
    /\ \A i \in 1..(Len(r.path) - 1) : <<r.path[i], r.path[i + 1]>> \in EdgesOf(relations)
    /\ Len(r.path) - 1 = d
    /\ r.total_weight = d
    /\ Len(r.relations) = Len(r.path) - 1
    /\ \A i \in 1..Len(r.relations) :
          /\ r.relations[i] \in Range(relations)
          /\ r.relations[i].source_id = r.path[i]
          /\ r.relations[i].target_id = r.path[i + 1]

\* C25: shortest_path returns no-path exactly when `to` is not reachable from
\* `from` along directed edges, from = to counting as reachable at distance 0;
\* otherwise the path starts with from, ends with to, follows relations in
\* their direction, has as many hops as the graph distance and as
\* total_weight, and comes with one relation per adjacent pair.
C25_ShortestPathMatchesDistance ==
    last.op = "shortest_path" =>
        LET d == GraphDistance(EdgesOf(last.relations), last.from_id, last.to_id)
        IN  /\ ~IsSome(last.result) <=> d = -1
            /\ IsSome(last.result) =>
                  PathIsShortest(Unwrap(last.result), last.from_id, last.to_id,
                                 last.relations, d)

\* The same with from = to counting as reachable only when it is the source or
\* the target of some relation.
ShortestPathBetweenGraphNodes ==
    last.op = "shortest_path" =>
        LET d == IF last.from_id \in GraphNodeMap(last.relations)
                 THEN GraphDistance(EdgesOf(last.relations), last.from_id, last.to_id)
                 ELSE -1
        IN  /\ ~IsSome(last.result) <=> d = -1
            /\ IsSome(last.result) =>
                  PathIsShortest(Unwrap(last.result), last.from_id, last.to_id,
                                 last.relations, d)

\* ---------------------------------------------------------------------------
\* Table names (store.rs: is_valid_table_name, ensure_table, delete_table)
\* ---------------------------------------------------------------------------

\* Names handed to ensure_table and delete_table: "", "docs", "my-docs",
\* "a_1", "Z9", "caf\u{e9}" and "d c".
TableNameInputs ==
    {<<>>, Name_docs, Name_my_docs, <<97, 95, 49>>, <<90, 57>>,
     <<99, 97, 102, 233>>, <<100, 32, 99>>}

InitTableNames ==
    /\ fs = (DbKey(Name_data, Name_global) :> EmptyDb)
    /\ store = NewDocumentStore(Name_data)
    /\ last = IdleLast
    /\ now = 0
    /\ chk = IdleChk
    /\ ep = IdleEp
    /\ cfg = IdleCfg
    /\ wk = IdlePass
    /\ tasks = <<>>

NamesEnsureTable ==
    /\ \E table_name \in TableNameInputs :
         \E r \in {EnsureTable(fs, store.base_dir, Name_main, table_name)} :
            /\ fs' = r.fs
            /\ last' = [op |-> "ensure_table", table_name |-> table_name,
                        ok |-> r.ok, before |-> fs]
    /\ UNCHANGED <<chk, ep, store, cfg, now, wk, tasks>>

NamesDeleteTable ==
    /\ \E table_name \in TableNameInputs :
         \E r \in {DeleteTable(fs, store.base_dir, Name_main, table_name)} :
            /\ fs' = r.fs
            /\ last' = [op |-> "delete_table", table_name |-> table_name,
                        ok |-> r.ok, before |-> fs]
    /\ UNCHANGED <<chk, ep, store, cfg, now, wk, tasks>>

SpecTableNames == InitTableNames /\ [][NamesEnsureTable \/ NamesDeleteTable]_vars

\* A non-empty name of the ASCII characters A-Z, a-z, 0-9 and underscore.
MatchesAsciiWord(name) ==
    /\ name # <<>>
    /\ \A i \in 1..Len(name) : name[i] \in (48..57) \cup (65..90) \cup (97..122) \cup {95}

\* C26: ensure_table and delete_table accept a table name exactly when it is
\* non-empty and consists only of the ASCII characters A-Z, a-z, 0-9 and
\* underscore; any other name is rejected before any statement is issued, so
\* nothing is created or dropped.
C26_TableNamesAreAsciiWords ==
    last.op \in {"ensure_table", "delete_table"} =>
        /\ last.ok <=> MatchesAsciiWord(last.table_name)
        /\ ~MatchesAsciiWord(last.table_name) => fs = last.before

\* Every ASCII word is accepted, and a rejected name changes nothing.
AsciiWordsAcceptedRejectedNamesInert ==
    last.op \in {"ensure_table", "delete_table"} =>
        /\ MatchesAsciiWord(last.table_name) => last.ok
        /\ ~last.ok => fs = last.before

\* ---------------------------------------------------------------------------
\* Listing databases and tables (store.rs: list_databases, list_tables)
\* ---------------------------------------------------------------------------

\* A store over the base directory "data" or "srv", its global.db opened.
InitListing ==
    /\ \E base_dir \in {Name_data, Name_srv} :
          /\ store = NewDocumentStore(base_dir)
          /\ fs = (DbKey(base_dir, Name_global) :> EmptyDb)
    /\ last = IdleLast
    /\ now = 0
    /\ chk = IdleChk
    /\ ep = IdleEp
    /\ cfg = IdleCfg
    /\ wk = IdlePass
    /\ tasks = <<>>

ListingEnsureTable ==
    /\ \E db_id \in {Name_main, Name_arch},
          table_name \in {Name_docs, Name_documents, Name_metadata} :
         \E r \in {EnsureTable(fs, store.base_dir, db_id, table_name)} :
            /\ fs' = r.fs
            /\ last' = [op |-> "ensure_table", db_id |-> db_id,
                        table_name |-> table_name, ok |-> r.ok]
    /\ UNCHANGED <<chk, ep, store, cfg, now, wk, tasks>>

ListingListTables ==
    /\ \E db_id \in {Name_main, Name_arch} :
         \E r \in {ListTables(fs, store.base_dir, db_id)} :
            /\ fs' = r.fs
            /\ last' = [op |-> "list_tables", db_id |-> db_id, tables |-> r.tables]
    /\ UNCHANGED <<chk, ep, store, cfg, now, wk, tasks>>

ListingListDatabases ==
    /\ last' = [op |-> "list_databases", databases |-> ListDatabases(fs)]
    /\ UNCHANGED <<chk, ep, fs, store, cfg, now, wk, tasks>>

SpecListing ==
    InitListing /\ [][ListingEnsureTable \/ ListingListTables \/ ListingListDatabases]_vars

\* A name ends in the given characters.
EndsWith(name, suffix) ==
    /\ Len(name) >= Len(suffix)
    /\ SubSeq(name, Len(name) - Len(suffix) + 1, Len(name)) = suffix

\* C27: list_tables(db) returns, sorted by name, exactly the user tables of
\* the database; it never returns document_relations, nor a name ending in
\* _fts, _config, _data, _idx or _docsize, nor an engine-private table.
C27_ListTablesReturnsUserTables ==
    last.op = "list_tables" =>
        /\ last.tables = SortNames(DOMAIN fs[DbKey(store.base_dir, last.db_id)].tables)
        /\ Name_document_relations \notin Range(last.tables)
        /\ \A i \in 1..Len(last.tables) :
              /\ \A x \in ExcludedLikeSuffixes : ~EndsWith(last.tables[i], x)
              /\ ~LikePrefix(last.tables[i], Prefix_sqlite)

\* What the listing does keep to: it is sorted, holds no FTS table and no
\* engine-private table, and every user table it leaves out ends in "data".
ListTablesSortedWithoutShadowTables ==
    last.op = "list_tables" =>
        /\ last.tables = SortNames(Range(last.tables))
        /\ Range(last.tables) \subseteq
              DOMAIN fs[DbKey(store.base_dir, last.db_id)].tables
                 \cup {Name_document_relations}
        /\ \A t \in DOMAIN fs[DbKey(store.base_dir, last.db_id)].tables :
              t \notin Range(last.tables) => EndsWith(t, <<100, 97, 116, 97>>)

\* C28: list_databases of a store with base directory B returns, in
\* lexicographic order, exactly the stems of the files B/<name>.db other
\* than global.db, for every B; a database created through the store is listed.
C28_ListDatabasesOfBaseDirectory ==
    last.op = "list_databases" =>
        last.databases =
            SortNames({k[2] : k \in {kk \in DOMAIN fs : kk[1] = store.base_dir}}
                         \ {Name_global})

\* The same for the base directory "data".
ListDatabasesOfDataDirectory ==
    (last.op = "list_databases" /\ store.base_dir = Name_data) =>
        last.databases =
            SortNames({k[2] : k \in {kk \in DOMAIN fs : kk[1] = store.base_dir}}
                         \ {Name_global})

\* ---------------------------------------------------------------------------
\* The budget of a worker pass (worker.rs)
\* ---------------------------------------------------------------------------

\* C29: in one tick the documents embedded and written back, over all
\* databases and tables, never number more than num_embedding_workers: each
\* table is asked for at most num_embedding_workers minus what the tick has
\* processed, only fetched documents are written, and the scan stops once the
\* budget is used up.
C29_TickBudget ==
    /\ Cardinality(wk.selected) <= cfg.num_embedding_workers
    /\ wk.total_processed <= cfg.num_embedding_workers
    /\ \A i \in 1..Len(tasks) : \A k \in 1..Len(tasks[i].docs) :
          tasks[i].docs[k].id \in wk.selected
    /\ wk.pc \in {"spawn", "join"} =>
          {wk.docs[k].id : k \in 1..Len(wk.docs)} \subseteq wk.selected
    /\ wk.pc = "spawn" => wk.total_processed < cfg.num_embedding_workers

\* A tick took documents from two tables, the second fetch cut short by what
\* the first had used up, and documents are left waiting.
C29_Witness ==
    /\ wk.pc = "next_table"
    /\ Cardinality(wk.scanned) = 2
    /\ wk.total_processed = cfg.num_embedding_workers
    /\ Cardinality(wk.selected) = cfg.num_embedding_workers
    /\ wk.selected \subseteq EmbeddedIds
    /\ PendingIds # {}

\* ---------------------------------------------------------------------------
\* Starting and stopping the background worker (worker.rs: start, stop)
\* ---------------------------------------------------------------------------

\* tokio::sync::Notify as the loop uses it.  state is "empty", "waiting" (the
\* Notified future of the select is registered) or "notified" (a permit is
\* stored); handed says that the registered future was given a notification
\* it has not yet been polled for.

\* A notification that reaches registered waiters only and stores no permit.
NotifyWaitersOnly(shutdown) ==
    IF shutdown.state = "waiting"
    THEN [state |-> "empty", handed |-> TRUE]
    ELSE shutdown

\* Notify::notify_one: wakes the waiter, or stores the permit.
NotifyOne(shutdown) ==
    IF shutdown.state = "waiting"
    THEN [state |-> "empty", handed |-> TRUE]
    ELSE [state |-> "notified", handed |-> shutdown.handed]

\* Dropping the Notified future of the select, as happens when the tick
\* branch wins: a notification it was handed goes back into the Notify.
DropNotified(shutdown) ==
    IF shutdown.handed THEN [state |-> "notified", handed |-> FALSE]
    ELSE IF shutdown.state = "waiting" THEN [state |-> "empty", handed |-> FALSE]
    ELSE shutdown

\* BackgroundWorker::new and start: the task is spawned and has not polled
\* its first select yet.
InitWorkerStop ==
    /\ chk = IdleChk
    /\ ep = [loop |-> "running", at |-> "select",
             shutdown |-> [state |-> "empty", handed |-> FALSE],
             stops |-> 0, stopped_at |-> "never"]
    /\ \E sc \in {x \in WorkerScenarios : x.base_dir = Name_data /\ x.pending <= 2} :
          /\ store = [base_dir |-> sc.base_dir, use_indexing |-> FALSE]
          /\ fs = StoreAll(DbKey(sc.base_dir, Name_global) :> EmptyDb, sc.base_dir,
                           sc.dbs, sc.tables, sc.pending, 1)
    /\ cfg \in {[num_embedding_workers |-> w] : w \in 1..MaxEmbeddingWorkers}
    /\ now = MaxPending * 4 + 1
    /\ last = IdleLast
    /\ wk = IdlePass
    /\ tasks = <<>>

\* BackgroundWorker::stop, from any other task at any time.
WorkerStop ==
    /\ ep.stops < MaxStops
    /\ ep' = [ep EXCEPT !.shutdown = NotifyOne(@), !.stops = @ + 1,
                        !.stopped_at = IF ep.stops > 0 THEN @
                                       ELSE IF wk.pc # "idle" THEN "tick"
                                       ELSE IF ep.at = "parked" THEN "waiting"
                                       ELSE "before"]
    /\ UNCHANGED <<chk, fs, store, cfg, now, last, wk, tasks>>

\* The select polls shutdown.notified() with no permit stored and the
\* interval not due: the future registers and the task sleeps.
LoopPark ==
    /\ ep.loop = "running" /\ wk.pc = "idle" /\ ep.at = "select"
    /\ ep.shutdown.state = "empty"
    /\ ep' = [ep EXCEPT !.at = "parked", !.shutdown.state = "waiting"]
    /\ UNCHANGED <<chk, fs, store, cfg, now, last, wk, tasks>>

\* The shutdown branch of the select completes: break.
LoopStop ==
    /\ ep.loop = "running" /\ wk.pc = "idle"
    /\ \/ ep.at = "select" /\ ep.shutdown.state = "notified"
       \/ ep.at = "parked" /\ ep.shutdown.handed
    /\ ep' = [ep EXCEPT !.loop = "stopped",
                        !.shutdown = [state |-> "empty", handed |-> FALSE]]
    /\ UNCHANGED <<chk, fs, store, cfg, now, last, wk, tasks>>

\* The interval branch of the select completes: the Notified future is
\* dropped and process_non_embedded_documents starts with list_databases.
LoopTick ==
    /\ ep.loop = "running" /\ wk.pc = "idle"
    /\ tasks = <<>>
    /\ ep' = [ep EXCEPT !.at = "select", !.shutdown = DropNotified(@)]
    /\ wk' = [IdlePass EXCEPT !.pc = "next_db", !.databases = ListDatabases(fs)]
    /\ UNCHANGED <<chk, fs, store, cfg, now, last, tasks>>

\* The steps of one process_non_embedded_documents call after its start.
LoopProcess ==
    \/ WkTickEnds
    \/ WkListTables
    \/ WkTablesDone
    \/ WkTableFails
    \/ WkTableSkipped
    \/ WkTableFetched
    \/ WkSpawn
    \/ WkJoinOk
    \/ WkJoinErr

NextWorkerStop ==
    \/ WorkerStop
    \/ LoopPark
    \/ LoopStop
    \/ LoopTick
    \/ LoopProcess
    \/ \E i \in 1..Len(tasks) : TaskEmbed(i)
    \/ \E i \in 1..Len(tasks) : TaskEmbedFails(i)
    \/ \E i \in 1..Len(tasks) : TaskWrite(i)

\* The runtime runs every task that can run, so a tick that has started comes
\* to its end; select! polls its branches in random order, so a shutdown
\* branch that is ready time and again is taken.
SpecWorkerStop ==
    /\ InitWorkerStop
    /\ [][NextWorkerStop]_vars
    /\ WF_vars(LoopProcess)
    /\ \A i \in 1..((MaxEmbeddingWorkers + WorkerBatchSize - 1) \div WorkerBatchSize) :
          WF_vars(i \in 1..Len(tasks) /\ (TaskEmbed(i) \/ TaskEmbedFails(i) \/ TaskWrite(i)))
    /\ SF_vars(LoopStop)

\* C30: after stop() is called the worker loop eventually terminates, whether
\* stop() comes before the loop first waits, while it waits for the next
\* tick, or while a tick is being processed.
C30_StopTerminatesLoop == (ep.stops > 0) ~> (ep.loop = "stopped")

\* The loop has ended on a stop() that came while a tick was processed.
C30_Witness == ep.loop = "stopped" /\ ep.stopped_at = "tick" /\ ep.stops = 1

\* C31: once stop() has been called the worker begins no new scan pass; only
\* the tick that was in flight when stop() was called may still run.
C31_NoNewPassAfterStop ==
    [][(wk.pc = "idle" /\ wk'.pc = "next_db") => ep.stops = 0]_vars

\* ---------------------------------------------------------------------------
\* Store handles of the running server (main.rs: main)
\* ---------------------------------------------------------------------------

\* The tasks that lock a store: two request handlers, the worker loop inside a
\* pass, and one batch task spawned by a pass.
HandlerTasks == {"handler1", "handler2"}
WorkerTasks == {"worker", "batch_task"}
ServerTasks == HandlerTasks \cup WorkerTasks

\* main builds two DocumentStore values over the same data directory, each in
\* a mutex of its own: `store` goes to BackgroundWorker::new, `store_for_api`
\* to AppState.
StoreHandles == {"store", "store_for_api"}
StoreHandleOf(task) == IF task \in WorkerTasks THEN "store" ELSE "store_for_api"

\* The store calls a task makes under the lock.
StoreCallsOf(task) ==
    CASE task = "worker" -> {"list_tables", "get_non_embedded_documents"}
      [] task = "batch_task" -> {"update_document_vector"}
      [] OTHER -> {"store_document", "get_document", "delete_document_by_id"}

ServerDatabases == {Name_main, Name_arch}

InitServer ==
    /\ chk = IdleChk
    /\ ep = [holder |-> [h \in StoreHandles |-> "none"],
             waiting |-> {},
             call |-> [t \in ServerTasks |-> [op |-> "none", db |-> <<>>]]]
    /\ fs = EmptyFn
    /\ store = IdleStore
    /\ cfg = IdleCfg
    /\ now = 0
    /\ last = IdleLast
    /\ wk = IdlePass
    /\ tasks = <<>>

\* store.lock().await is reached: the task queues for the mutex of its handle.
SrvAwaitLock(task) ==
    /\ task \notin ep.waiting
    /\ ep.holder[StoreHandleOf(task)] # task
    /\ ep' = [ep EXCEPT !.waiting = @ \cup {task}]
    /\ UNCHANGED <<chk, fs, store, cfg, now, last, wk, tasks>>

\* The lock is granted and the task starts a store call on a database.
SrvLocked(task, op, db) ==
    /\ task \in ep.waiting
    /\ ep.holder[StoreHandleOf(task)] = "none"
    /\ ep' = [ep EXCEPT !.waiting = @ \ {task},
                        !.holder[StoreHandleOf(task)] = task,
                        !.call[task] = [op |-> op, db |-> db]]
    /\ UNCHANGED <<chk, fs, store, cfg, now, last, wk, tasks>>

\* The call returns and the guard is dropped.
SrvUnlock(task) ==
    /\ ep.holder[StoreHandleOf(task)] = task
    /\ ep' = [ep EXCEPT !.holder[StoreHandleOf(task)] = "none",
                        !.call[task] = [op |-> "none", db |-> <<>>]]
    /\ UNCHANGED <<chk, fs, store, cfg, now, last, wk, tasks>>

NextServer ==
    \/ \E task \in ServerTasks : SrvAwaitLock(task)
    \/ \E task \in ServerTasks : \E op \in StoreCallsOf(task) : \E db \in ServerDatabases :
          SrvLocked(task, op, db)
    \/ \E task \in ServerTasks : SrvUnlock(task)

SpecServer == InitServer /\ [][NextServer]_vars

\* C32: the background worker and the request handlers never execute store
\* operations on the same database at the same time.
C32_WorkerAndHandlersExcluded ==
    \A w \in WorkerTasks : \A h \in HandlerTasks :
        ~(/\ ep.call[w].op # "none"
          /\ ep.call[h].op # "none"
          /\ ep.call[w].db = ep.call[h].db)

\* What the two mutexes give: the tasks of one handle exclude one another.
TasksOfOneHandleExcluded ==
    \A t1 \in ServerTasks : \A t2 \in ServerTasks :
        (t1 # t2 /\ StoreHandleOf(t1) = StoreHandleOf(t2))
            => ~(ep.call[t1].op # "none" /\ ep.call[t2].op # "none")

\* ---------------------------------------------------------------------------
\* embed_parallel: the semaphore and termination
\* ---------------------------------------------------------------------------

\* The caller of embed_parallel is polled while it can make a step, and the
\* spawned tasks run on the runtime whatever the caller does: embed_batch
\* returns, with Ok or Err.
EpCallerStep == EpSpawn \/ EpPollPending \/ EpPollReady \/ EpReturn

SpecEmbedParallelFair ==
    /\ SpecEmbedParallel
    /\ WF_vars(EpCallerStep)
    /\ WF_vars(EpTaskEmbedded)
    /\ WF_vars(EpTaskFinished)

\* The batch tasks whose embed_batch call is running.
EpRunning == {i \in 1..Len(ep.task) : ep.task[i].st = "embedding"}

\* C33: with max_workers = W >= 1 at most W embed_batch calls run at any
\* time, every permit taken is back once its task has ended, with Ok or with
\* Err, and the call returns for every input list.
C33_BoundedWorkersAndTermination ==
    /\ [](/\ Cardinality(EpRunning) <= ep.max_workers
          /\ ep.permits = ep.max_workers - Cardinality(EpRunning))
    /\ <>(ep.pc = "returned")
    /\ <>[](ep.permits = ep.max_workers)

\* A call over more batches than permits has returned the error of a failed
\* task, and every permit is back.
C33_Witness ==
    /\ ep.pc = "returned" /\ ep.result = "err"
    /\ Len(ep.task) > ep.max_workers
    /\ \E i \in 1..Len(ep.task) : ep.task[i].st = "finished" /\ ~ep.task[i].ok
    /\ ep.permits = ep.max_workers

\* ---------------------------------------------------------------------------
\* VectorIndex with its maps (index.rs)
\* ---------------------------------------------------------------------------

\* A VectorIndex is [dimensions, hnsw, id_map, reverse_map]: hnsw is None or
\* Some(points), a point being [data, id] as given to Hnsw::insert; id_map is
\* the Vec<String>, position p of the code being id_map[p + 1]; reverse_map is
\* the HashMap<String, usize>.

\* VectorIndex::new
VectorIndexNew(dimensions) ==
    [dimensions |-> dimensions, hnsw |-> None, id_map |-> <<>>, reverse_map |-> EmptyFn]

\* The for loop of VectorIndex::build from its idx-th turn (idx counts from 0
\* over the whole list, as enumerate does).
RECURSIVE BuildLoop(_, _, _, _)
BuildLoop(dimensions, documents, idx, acc) ==
    IF idx >= Len(documents) THEN acc
    ELSE LET doc == documents[idx + 1]
         IN  IF Len(doc.vector) # dimensions
             THEN BuildLoop(dimensions, documents, idx + 1, acc)
             ELSE BuildLoop(dimensions, documents, idx + 1,
                      [points |-> acc.points \cup {[data |-> doc.vector, id |-> idx]},
                       id_map |-> Append(acc.id_map, doc.id),
                       reverse_map |-> (doc.id :> idx) @@ acc.reverse_map])

\* VectorIndex::build
VectorIndexBuild(index, documents) ==
    IF documents = <<>> THEN index
    ELSE LET b == BuildLoop(index.dimensions, documents, 0,
                      [points |-> {}, id_map |-> <<>>, reverse_map |-> EmptyFn])
         IN  [dimensions |-> index.dimensions, hnsw |-> Some(b.points),
              id_map |-> b.id_map, reverse_map |-> b.reverse_map]

\* VectorIndex::add: [ok, index]
VectorIndexAdd(index, doc_id, vector) ==
    IF Len(vector) # index.dimensions THEN [ok |-> FALSE, index |-> index]
    ELSE IF doc_id \in DOMAIN index.reverse_map THEN [ok |-> TRUE, index |-> index]
    ELSE LET points == IF IsSome(index.hnsw) THEN Unwrap(index.hnsw) ELSE {}
             idx == Len(index.id_map)
         IN  [ok |-> TRUE,
              index |-> [index EXCEPT
                            !.hnsw = Some(points \cup {[data |-> vector, id |-> idx]}),
                            !.id_map = Append(@, doc_id),
                            !.reverse_map = (doc_id :> idx) @@ @]]

\* VectorIndex::search, as the set of the (document id, point) pairs an
\* exhaustive neighbour search can return: a point whose id is not a position
\* of id_map is dropped with a warning.
VectorIndexSearch(index, query) ==
    IF Len(query) # index.dimensions THEN [ok |-> FALSE, hits |-> {}]
    ELSE IF ~IsSome(index.hnsw) THEN [ok |-> TRUE, hits |-> {}]
    ELSE [ok |-> TRUE,
          hits |-> {[doc_id |-> index.id_map[p.id + 1], data |-> p.data] :
                       p \in {q \in Unwrap(index.hnsw) : q.id < Len(index.id_map)}}]

IndexVectors == {<<1>>, <<2>>, <<1, 2>>}
IndexDocIds == {UserId(1), UserId(2), UuidId(1)}

\* The lists handed to build: up to MaxBuildDocs documents with distinct ids.
BuildLists ==
    {l \in SeqsUpTo([id : IndexDocIds, vector : IndexVectors], MaxBuildDocs) :
        \A i \in 1..Len(l) : \A j \in 1..Len(l) : i # j => l[i].id # l[j].id}

\* ep is the index; last.given keeps, for each document the index took, the
\* vector it was given with.
InitVectorIndex ==
    /\ chk = IdleChk
    /\ ep \in {VectorIndexNew(d) : d \in 1..MaxDimensions}
    /\ fs = EmptyFn
    /\ store = IdleStore
    /\ cfg = IdleCfg
    /\ now = 0
    /\ last = [op |-> "new", given |-> EmptyFn, skipped |-> 0]
    /\ wk = IdlePass
    /\ tasks = <<>>

\* build on the new index, as DocumentStore::build_index calls it
VixBuild ==
    /\ last.op = "new"
    /\ \E documents \in BuildLists :
          /\ ep' = VectorIndexBuild(ep, documents)
          /\ last' = [op |-> "build",
                      given |-> [id \in {documents[i].id : i \in
                                           {k \in 1..Len(documents) :
                                               Len(documents[k].vector) = ep.dimensions}}
                                   |-> (CHOOSE d \in Range(documents) : d.id = id).vector],
                      skipped |-> Cardinality({k \in 1..Len(documents) :
                                     Len(documents[k].vector) # ep.dimensions})]
    /\ UNCHANGED <<chk, fs, store, cfg, now, wk, tasks>>

VixAdd ==
    /\ Len(ep.id_map) < MaxIndexed
    /\ \E doc_id \in IndexDocIds, vector \in IndexVectors :
          \E r \in {VectorIndexAdd(ep, doc_id, vector)} :
              /\ ep' = r.index
              /\ last' = [last EXCEPT !.op = "add",
                             !.given = IF r.ok /\ doc_id \notin DOMAIN last.given
                                       THEN (doc_id :> vector) @@ @ ELSE @]
    /\ UNCHANGED <<chk, fs, store, cfg, now, wk, tasks>>

NextVectorIndex == VixBuild \/ VixAdd

SpecVectorIndex == InitVectorIndex /\ [][NextVectorIndex]_vars

\* C34: in every reachable state of a VectorIndex the forward map and the
\* reverse map are inverses of each other and agree with the ids given to the
\* HNSW structure: reverse_map[id_map[i]] = i for every position i, and the
\* point inserted with id i is the vector of document id_map[i].
C34_IndexMapsAgree ==
    /\ DOMAIN ep.reverse_map = Range(ep.id_map)
    /\ \A p \in 0..(Len(ep.id_map) - 1) :
          /\ ep.reverse_map[ep.id_map[p + 1]] = p
          /\ IsSome(ep.hnsw)
          /\ {q.data : q \in {x \in Unwrap(ep.hnsw) : x.id = p}}
                = {last.given[ep.id_map[p + 1]]}

\* The maps agree while no vector was skipped: after adds alone, and after a
\* build whose vectors all have the dimension of the index.
IndexMapsAgreeWithoutSkips ==
    last.skipped = 0 => C34_IndexMapsAgree

\* ---------------------------------------------------------------------------
\* The live index of a table (store.rs: build_index, update_document_vector,
\* search_vector_with_index)
\* ---------------------------------------------------------------------------

\* DocumentStore::build_index of a table that exists; `order` is the order
\* in which SELECT id, vector ... (no ORDER BY) returns the rows. The dimension
\* is that of the first row.
BuildIndexLive(st, rows, db_id, table_name, order) ==
    IF order = <<>> THEN st
    ELSE LET documents == [i \in 1..Len(order) |->
                             [id |-> order[i],
                              vector |-> deserialize_vector(Unwrap(rows[order[i]].vector))]]
         IN  [st EXCEPT !.indexes =
                 (<<db_id, table_name>> :>
                     VectorIndexBuild(VectorIndexNew(Len(documents[1].vector)), documents))
                 @@ @]

\* DocumentStore::search_vector_with_index: [ok, store, hits]
SearchVectorWithIndex(st, rows, db_id, table_name, query_vector, order) ==
    LET st1 == IF <<db_id, table_name>> \in DOMAIN st.indexes THEN st
               ELSE BuildIndexLive(st, rows, db_id, table_name, order)
    IN  IF <<db_id, table_name>> \notin DOMAIN st1.indexes
        THEN [ok |-> FALSE, store |-> st1, hits |-> {}]
        ELSE LET n == VectorIndexSearch(st1.indexes[<<db_id, table_name>>], query_vector)
             IN  [ok |-> n.ok, store |-> st1,
                  hits |-> {h \in n.hits : h.doc_id \in DOMAIN rows}]

\* DocumentStore::update_document_vector: the UPDATE, then index.add when the
\* table has an index: [ok, store, fs]
UpdateDocumentVectorLive(st, f, db_id, table_name, doc_id, vector, t) ==
    LET r == UpdateDocumentVector(f, st.base_dir, db_id, table_name, doc_id, vector, t)
    IN  IF ~r.ok \/ ~st.use_indexing \/ <<db_id, table_name>> \notin DOMAIN st.indexes
        THEN [ok |-> r.ok, store |-> st, fs |-> r.fs]
        ELSE LET a == VectorIndexAdd(st.indexes[<<db_id, table_name>>], doc_id, vector)
             IN  [ok |-> a.ok, fs |-> r.fs,
                  store |-> [st EXCEPT !.indexes[<<db_id, table_name>>] = a.index]]

LiveKey == <<Name_main, Name_docs>>
LiveRows == IF HasTable(fs, store.base_dir, Name_main, Name_docs)
            THEN TableRows(fs, store.base_dir, Name_main, Name_docs) ELSE EmptyFn
LiveDocIds == {UserId(1), UserId(2)}

\* One store with indexing configured and a threshold of one embedded row.
InitLiveIndex ==
    /\ chk = IdleChk
    /\ ep = IdleEp
    /\ cfg = IdleCfg
    /\ store = ConfigureIndexing(NewDocumentStore(Name_data), TRUE, 1)
    /\ fs = DbKey(Name_data, Name_global) :> EmptyDb
    /\ now = 1
    /\ last = IdleLast
    /\ wk = IdlePass
    /\ tasks = <<>>

LvStoreDocument ==
    /\ now < MaxLiveOps
    /\ \E id \in LiveDocIds, v \in {None} \cup {Some(x) : x \in IndexVectors} :
          \E r \in {StoreDocument(fs, store.base_dir, Name_main, Name_docs,
                                  IndexDocument(id, v))} :
              /\ fs' = r.fs
              /\ last' = [op |-> "store_document", ok |-> r.ok]
    /\ now' = now + 1
    /\ UNCHANGED <<chk, ep, store, cfg, wk, tasks>>

\* search_vector on a table that exists and has reached the threshold
LvSearchVector ==
    /\ now < MaxLiveOps
    /\ ShouldUseIndex(store, LiveRows)
    /\ \E query \in IndexVectors, order \in IterationOrders(EmbeddedWithVector(LiveRows)) :
          \E r \in {SearchVectorWithIndex(store, LiveRows, Name_main, Name_docs,
                                          query, order)} :
              /\ store' = r.store
              /\ last' = [op |-> "search_vector", ok |-> r.ok, hits |-> r.hits]
    /\ now' = now + 1
    /\ UNCHANGED <<chk, ep, fs, cfg, wk, tasks>>

LvUpdateDocumentVector ==
    /\ now < MaxLiveOps
    /\ \E id \in LiveDocIds, vector \in IndexVectors :
          \E r \in {UpdateDocumentVectorLive(store, fs, Name_main, Name_docs, id,
                                             vector, now + 1)} :
              /\ fs' = r.fs
              /\ store' = r.store
              /\ last' = [op |-> "update_document_vector", ok |-> r.ok,
                          doc_id |-> id, vector |-> vector,
                          row_before |-> IF id \in DOMAIN LiveRows
                                         THEN Some(LiveRows[id]) ELSE None,
                          live_dimensions |->
                              IF LiveKey \in DOMAIN store.indexes
                              THEN Some(store.indexes[LiveKey].dimensions) ELSE None,
                          indexed_before |->
                              /\ LiveKey \in DOMAIN store.indexes
                              /\ id \in DOMAIN store.indexes[LiveKey].reverse_map]
    /\ now' = now + 1
    /\ UNCHANGED <<chk, ep, cfg, wk, tasks>>

NextLiveIndex == LvStoreDocument \/ LvSearchVector \/ LvUpdateDocumentVector

SpecLiveIndex == InitLiveIndex /\ [][NextLiveIndex]_vars

\* C37: update_document_vector with a vector whose length differs from the
\* dimension of the live index of the table fails with a dimension-mismatch
\* error and leaves the document row as it was before the call.
C37_MismatchLeavesRowUnchanged ==
    (/\ last.op = "update_document_vector"
     /\ IsSome(last.live_dimensions)
     /\ Len(last.vector) # Unwrap(last.live_dimensions))
    => (/\ ~last.ok
        /\ IsSome(last.row_before) => LiveRows[last.doc_id] = Unwrap(last.row_before))

\* The error half alone
MismatchFails ==
    (/\ last.op = "update_document_vector"
     /\ IsSome(last.live_dimensions)
     /\ Len(last.vector) # Unwrap(last.live_dimensions))
    => ~last.ok

\* What an exhaustive search of the live index returns for a document.
LiveHitsOf(doc_id) ==
    {h \in VectorIndexSearch(store.indexes[LiveKey],
                             [i \in 1..store.indexes[LiveKey].dimensions |-> 1]).hits :
        h.doc_id = doc_id}

\* C38: after update_document_vector(d, v2) on a document d that is in the
\* live index with an earlier vector, index searches rank d by v2: the index
\* holds the vector stored in the row.
C38_IndexFollowsUpdate ==
    (/\ last.op = "update_document_vector" /\ last.ok
     /\ last.indexed_before)
    => (/\ LiveHitsOf(last.doc_id) # {}
        /\ \A h \in LiveHitsOf(last.doc_id) :
              Some(serialize_vector(h.data)) = LiveRows[last.doc_id].vector)

\* The index holds the row's vector for a document that update_document_vector
\* adds to it for the first time, when the index was built without a skip.
IndexHoldsFirstVector ==
    (/\ last.op = "update_document_vector" /\ last.ok
     /\ IsSome(last.live_dimensions) /\ ~last.indexed_before
     /\ last.doc_id \in DOMAIN LiveRows
     /\ \A p \in 0..(Len(store.indexes[LiveKey].id_map) - 1) :
           store.indexes[LiveKey].reverse_map[store.indexes[LiveKey].id_map[p + 1]] = p)
    => \E h \in LiveHitsOf(last.doc_id) :
          Some(serialize_vector(h.data)) = LiveRows[last.doc_id].vector

\* ---------------------------------------------------------------------------
\* Ticks that overlap the tasks of an earlier tick (worker.rs)
\* ---------------------------------------------------------------------------

\* A pass that returned the error of one batch task dropped the handles of the
\* others; those tasks run on, and the interval fires again after ten seconds
\* whether they are done or not. ep.detached holds the tasks of earlier ticks
\* that are still running when a tick starts; tasks holds those of the
\* current tick.
InitWorkerOverlap ==
    /\ chk = IdleChk
    /\ ep = [detached |-> <<>>]
    /\ \E sc \in {x \in WorkerScenarios :
                    /\ x.base_dir = Name_data /\ x.dbs = <<Name_main>>
                    /\ x.tables \in {<<Name_docs>>, <<Name_chunks, Name_docs>>}} :
          /\ store = [base_dir |-> sc.base_dir, use_indexing |-> FALSE]
          /\ fs = StoreAll(DbKey(sc.base_dir, Name_global) :> EmptyDb, sc.base_dir,
                           sc.dbs, sc.tables, sc.pending, 1)
    /\ cfg \in {[num_embedding_workers |-> w] : w \in 1..MaxEmbeddingWorkers}
    /\ now = MaxPending * 4 + 1
    /\ last = IdleLast
    /\ wk = IdlePass
    /\ tasks = <<>>

\* interval.tick() with the loop back in its select: a new pass starts, the
\* tasks an earlier pass left behind keep running beside it.
OvTick ==
    /\ wk.pc = "idle"
    /\ Len(ep.detached) + Len(tasks) <= MaxDetached
    /\ ep' = [ep EXCEPT !.detached = @ \o tasks]
    /\ tasks' = <<>>
    /\ wk' = [IdlePass EXCEPT !.pc = "next_db", !.databases = ListDatabases(fs)]
    /\ UNCHANGED <<chk, fs, store, cfg, now, last>>

\* ep.detached without its i-th task
DetachedWithout(i) ==
    [j \in 1..(Len(ep.detached) - 1) |->
        IF j < i THEN ep.detached[j] ELSE ep.detached[j + 1]]

\* a task of an earlier tick embedded every document of its batch
DetachedEmbed(i) ==
    /\ ep.detached[i].st = "embedding"
    /\ ep' = [ep EXCEPT !.detached[i].st = "writing"]
    /\ UNCHANGED <<chk, fs, store, cfg, now, last, wk, tasks>>

\* its embedder.embed(..).await? fails: the task ends
DetachedEmbedFails(i) ==
    /\ ep.detached[i].st = "embedding"
    /\ ep' = [ep EXCEPT !.detached = DetachedWithout(i)]
    /\ UNCHANGED <<chk, fs, store, cfg, now, last, wk, tasks>>

\* its update_document_vector for document k of the batch, under the mutex
DetachedWrite(i) ==
    /\ ep.detached[i].st = "writing"
    /\ \E r \in {UpdateDocumentVector(fs, store.base_dir, ep.detached[i].db,
                                      ep.detached[i].table,
                                      ep.detached[i].docs[ep.detached[i].k].id,
                                      EmbeddingService(
                                          ep.detached[i].docs[ep.detached[i].k].content),
                                      now)} :
          /\ fs' = r.fs
          /\ ep' = IF ~r.ok \/ ep.detached[i].k = Len(ep.detached[i].docs)
                   THEN [ep EXCEPT !.detached = DetachedWithout(i)]
                   ELSE [ep EXCEPT !.detached[i].k = @ + 1]
    /\ UNCHANGED <<chk, store, cfg, now, last, wk, tasks>>

NextWorkerOverlap ==
    \/ OvTick
    \/ LoopProcess
    \/ \E i \in 1..Len(tasks) : TaskEmbed(i)
    \/ \E i \in 1..Len(tasks) : TaskEmbedFails(i)
    \/ \E i \in 1..Len(tasks) : TaskWrite(i)
    \/ \E i \in 1..Len(ep.detached) : DetachedEmbed(i)
    \/ \E i \in 1..Len(ep.detached) : DetachedEmbedFails(i)
    \/ \E i \in 1..Len(ep.detached) : DetachedWrite(i)

SpecWorkerOverlap == InitWorkerOverlap /\ [][NextWorkerOverlap]_vars

\* The documents a task still has to embed or to write back.
InFlight(t) ==
    IF t.st = "embedding" THEN {t.docs[k].id : k \in 1..Len(t.docs)}
    ELSE IF t.st = "writing" THEN {t.docs[k].id : k \in t.k..Len(t.docs)}
    ELSE {}

\* C35: no document is in flight in two worker tasks at the same time, within
\* one tick and across ticks, also after a tick that ended early on an error
\* while other batch tasks were still running.
C35_NoDocumentInTwoTasks ==
    \A i \in 1..Len(tasks \o ep.detached) : \A j \in 1..Len(tasks \o ep.detached) :
        i # j => InFlight((tasks \o ep.detached)[i]) \cap InFlight((tasks \o ep.detached)[j]) = {}

\* Within one tick the tasks work on disjoint documents.
TasksOfOneTickDisjoint ==
    \A i \in 1..Len(tasks) : \A j \in 1..Len(tasks) :
        i # j => InFlight(tasks[i]) \cap InFlight(tasks[j]) = {}

\* ---------------------------------------------------------------------------
\* The worker beside store_document (worker.rs, store.rs)
\* ---------------------------------------------------------------------------

\* last.writes counts the store_document calls made beside the worker.
InitWorkerWrites ==
    /\ chk = IdleChk
    /\ ep = IdleEp
    /\ \E sc \in {x \in WorkerScenarios :
                    /\ x.base_dir = Name_data /\ x.dbs = <<Name_main>>
                    /\ x.tables = <<Name_docs>> /\ x.pending <= 2} :
          /\ store = [base_dir |-> sc.base_dir, use_indexing |-> FALSE]
          /\ fs = StoreAll(DbKey(sc.base_dir, Name_global) :> EmptyDb, sc.base_dir,
                           sc.dbs, sc.tables, sc.pending, 1)
    /\ cfg \in {[num_embedding_workers |-> w] : w \in 1..2}
    /\ now = MaxPending * 4 + 1
    /\ last = [op |-> "none", writes |-> 0]
    /\ wk = IdlePass
    /\ tasks = <<>>

\* store_document from a request handler: a document of main/docs is stored
\* again with another content and no vector, at any moment of the worker's
\* pass or of its tasks (the UPSERT resets is_embedded to 0).
WwStoreDocument ==
    /\ last.writes < MaxOverwrites
    /\ \E id \in DOMAIN TableRows(fs, store.base_dir, Name_main, Name_docs),
          content \in {<<c>> : c \in 1..NumChars} :
          /\ content # TableRows(fs, store.base_dir, Name_main, Name_docs)[id].content
          /\ \E r \in {StoreDocument(fs, store.base_dir, Name_main, Name_docs,
                          [id |-> id, content |-> content, vector |-> None,
                           created_at |-> now, updated_at |-> now, is_embedded |-> FALSE,
                           vectorize |-> TRUE, is_chunk |-> FALSE, parent_id |-> None,
                           chunk_index |-> None, is_vectorized |-> FALSE])} :
                /\ r.ok
                /\ fs' = r.fs
                /\ last' = [op |-> "store_document", writes |-> last.writes + 1]
    /\ UNCHANGED <<chk, ep, store, cfg, now, wk, tasks>>

NextWorkerWrites ==
    \/ WkTick
    \/ LoopProcess
    \/ WwStoreDocument
    \/ \E i \in 1..Len(tasks) : TaskEmbed(i)
    \/ \E i \in 1..Len(tasks) : TaskEmbedFails(i)
    \/ \E i \in 1..Len(tasks) : TaskWrite(i)

SpecWorkerWrites == InitWorkerWrites /\ [][NextWorkerWrites]_vars

\* C36: a row with is_embedded = 1 holds the embedding of its current
\* content, also when store_document overwrote the content while a worker
\* task that selected the old version was still embedding.
C36_EmbeddedRowHoldsEmbeddingOfContent ==
    \A id \in DOMAIN TableRows(fs, store.base_dir, Name_main, Name_docs) :
        LET row == TableRows(fs, store.base_dir, Name_main, Name_docs)[id]
        IN  row.is_embedded = 1 =>
                row.vector = Some(serialize_vector(EmbeddingService(row.content)))

\* Without a store_document beside the worker the rows it marks embedded hold
\* the embedding of their content.
EmbeddedRowHoldsEmbeddingWhileNobodyWrites ==
    last.writes = 0 => C36_EmbeddedRowHoldsEmbeddingOfContent

\* ---------------------------------------------------------------------------
\* The loops of FixedTokenChunker::chunk and CustomChunker::chunk, turn by turn
\* ---------------------------------------------------------------------------

\* chk is one call on a non-empty text: the chunker, the arguments, `start`
\* and the chunks pushed so far. A call that returns pushes at most one chunk
\* per token or byte of the text; the model stops following a call that has
\* pushed MaxLoopChunks chunks, which is more than that.
InitChunkLoop ==
    /\ chk \in {[pc |-> "called", chunker |-> c, text |-> t, chunk_size |-> cs,
                 overlap |-> ov, start |-> 0, chunks |-> <<>>] :
                   c \in {"fixed_tokens", "custom"},
                   t \in SeqsUpTo(Chars, MaxTextLen) \ {<<>>},
                   cs \in 0..MaxChunkSize, ov \in 0..MaxOverlap}
    /\ ep = IdleEp
    /\ fs = EmptyFn
    /\ store = IdleStore
    /\ cfg = IdleCfg
    /\ now = 0
    /\ last = IdleLast
    /\ wk = IdlePass
    /\ tasks = <<>>

\* FixedTokenChunker::chunk up to its loop: a text of at most chunk_size
\* tokens is returned as one chunk
FixedEnter ==
    /\ chk.pc = "called" /\ chk.chunker = "fixed_tokens"
    /\ chk' = IF CountTokens(chk.text) <= chk.chunk_size
              THEN [chk EXCEPT !.pc = "returned", !.chunks = <<chk.text>>]
              ELSE [chk EXCEPT !.pc = "loop"]
    /\ UNCHANGED <<ep, fs, store, cfg, now, last, wk, tasks>>

\* one test of `while start < tokens.len()` and, when it holds, one turn
FixedTurn ==
    /\ chk.pc = "loop" /\ chk.chunker = "fixed_tokens"
    /\ Len(chk.chunks) < MaxLoopChunks
    /\ chk' =
          IF ~(chk.start < CountTokens(chk.text)) THEN [chk EXCEPT !.pc = "returned"]
          ELSE LET end == WindowEnd(chk.start, chk.chunk_size, CountTokens(chk.text))
                   next == NextStart(end, EffectiveOverlap(chk.overlap, chk.chunk_size))
                   pushed == Append(chk.chunks,
                                 BpeDecode(SubSeq(BpeEncode(chk.text), chk.start + 1, end)))
               IN  IF end >= CountTokens(chk.text)
                   THEN [chk EXCEPT !.pc = "returned", !.chunks = pushed]
                   ELSE IF next >= end
                   THEN [chk EXCEPT !.pc = "returned", !.chunks = pushed, !.start = next]
                   ELSE [chk EXCEPT !.chunks = pushed, !.start = next]
    /\ UNCHANGED <<ep, fs, store, cfg, now, last, wk, tasks>>

\* CustomChunker::chunk up to its loop
CustomEnter ==
    /\ chk.pc = "called" /\ chk.chunker = "custom"
    /\ chk' = [chk EXCEPT !.pc = "loop"]
    /\ UNCHANGED <<ep, fs, store, cfg, now, last, wk, tasks>>

\* let chars_per_chunk = chunk_size * 4;
CharsPerChunk(chunk_size) == chunk_size * 4

\* one test of `while start < text.len()` and, when it holds, one turn
CustomTurn ==
    /\ chk.pc = "loop" /\ chk.chunker = "custom"
    /\ Len(chk.chunks) < MaxLoopChunks
    /\ chk' =
          IF ~(chk.start < Len(chk.text)) THEN [chk EXCEPT !.pc = "returned"]
          ELSE LET end == Min(chk.start + CharsPerChunk(chk.chunk_size), Len(chk.text))
               IN  [chk EXCEPT !.chunks = Append(@, SubSeq(chk.text, chk.start + 1, end)),
                               !.start = end]
    /\ UNCHANGED <<ep, fs, store, cfg, now, last, wk, tasks>>

NextChunkLoop == FixedEnter \/ FixedTurn \/ CustomEnter \/ CustomTurn

\* The call runs on its caller's thread: it takes its next step while it has one.
SpecChunkLoop == InitChunkLoop /\ [][NextChunkLoop]_vars /\ WF_vars(NextChunkLoop)

\* C39: chunk(text, chunk_size, overlap) of FixedTokenChunker and of
\* CustomChunker terminates and returns a finite list for every non-empty
\* text, every chunk_size >= 0 and every overlap >= 0.
C39_ChunkTerminates == <>(chk.pc = "returned")

\* FixedTokenChunker::chunk returns for every input, and CustomChunker::chunk
\* for every chunk_size >= 1.
ChunkTerminatesUnlessCustomWithSizeZero ==
    (chk.chunker = "fixed_tokens" \/ chk.chunk_size >= 1) => <>(chk.pc = "returned")

\* Why the custom loop does not end: a turn that does not return must move
\* `start` forward. Every turn of the fixed loop does; a custom turn with
\* chunk_size = 0 leaves start where it was, whatever number of turns is
\* followed.
TurnAdvancesStart ==
    [][(chk.pc = "loop" /\ chk'.pc = "loop") => chk'.start > chk.start]_vars

FixedTurnAdvancesStart ==
    [][(chk.pc = "loop" /\ chk'.pc = "loop" /\ chk.chunker = "fixed_tokens")
          => chk'.start > chk.start]_vars

=============================================================================
